---- MODULE Spec2Model ----
(***************************************************************************)
(* hashfile: streaming CRC-32 integrity comments.                          *)
(*                                                                         *)
(* Bytes are naturals 0..255 and byte strings are sequences of bytes.      *)
(* A uint32 is a pair <<hi, lo>> of 16-bit halves (value hi * 65536 + lo), *)
(* so that every 32-bit value keeps its full width.  Offsets into byte     *)
(* strings are 0-based as in the Go source; sequences are 1-based, so the  *)
(* byte at offset i is s[i + 1] and the slice s[a:b] is SubSeq(s, a+1, b). *)
(***************************************************************************)
EXTENDS Integers, Sequences, FiniteSets, TLC

(***************************************************************************)
(* Byte literals                                                           *)
(***************************************************************************)
LF == 10
CR == 13

\* The Go slice s[a:b]
Slice(s, a, b) == SubSeq(s, a + 1, b)

\* "FileIntegrity: "
KeyText == <<70, 105, 108, 101, 73, 110, 116, 101, 103, 114, 105, 116, 121, 58, 32>>

(***************************************************************************)
(* Comment styles                                                          *)
(***************************************************************************)
\* "// "
GoStyle == [Prefix |-> <<47, 47, 32>>, Suffix |-> <<>>]
\* "// "
CStyle == [Prefix |-> <<47, 47, 32>>, Suffix |-> <<>>]
\* "# "
PythonStyle == [Prefix |-> <<35, 32>>, Suffix |-> <<>>]
\* "-- "
SQLStyle == [Prefix |-> <<45, 45, 32>>, Suffix |-> <<>>]
\* "<!-- " and " -->"
HTMLStyle == [Prefix |-> <<60, 33, 45, 45, 32>>, Suffix |-> <<32, 45, 45, 62>>]
\* "# "
ShellStyle == [Prefix |-> <<35, 32>>, Suffix |-> <<>>]
\* "# "
RubyStyle == [Prefix |-> <<35, 32>>, Suffix |-> <<>>]
\* "// "
JSStyle == [Prefix |-> <<47, 47, 32>>, Suffix |-> <<>>]

\* the styles the documentation lists beyond those: "/* " and " */", and
\* the declaration const FileIntegrity = "ABCD1234"
CSSStyle == [Prefix |-> <<47, 42, 32>>, Suffix |-> <<32, 42, 47>>]
TemplStyle ==
  [Prefix |-> <<99, 111, 110, 115, 116, 32, 70, 105, 108, 101, 73, 110, 116,
                101, 103, 114, 105, 116, 121, 32, 61, 32, 34>>,
   Suffix |-> <<34>>]

\* DefaultConfig: Go style, 64 KiB buffer
DefaultConfig == [CommentStyle |-> GoStyle, BufferSize |-> 64 * 1024]

\* ConfigForExtension: the switch on ext over DefaultConfig
ConfigForExtension(ext) ==
  [DefaultConfig EXCEPT !.CommentStyle =
     IF ext = ".go" THEN GoStyle
     ELSE IF ext \in {".c", ".h", ".cpp", ".hpp", ".cc", ".cxx", ".java", ".js",
                      ".ts", ".jsx", ".tsx"} THEN CStyle
     ELSE IF ext = ".py" THEN PythonStyle
     ELSE IF ext = ".sql" THEN SQLStyle
     ELSE IF ext \in {".html", ".htm", ".xml"} THEN HTMLStyle
     ELSE IF ext \in {".sh", ".bash"} THEN ShellStyle
     ELSE IF ext = ".rb" THEN RubyStyle
     ELSE @]

\* Config.maxCommentSize: prefix + "FileIntegrity: " + 8 hex + suffix + CRLF
maxCommentSize(style) == Len(style.Prefix) + Len(KeyText) + 8 + Len(style.Suffix) + 2

\* a window with no room for a line ending before the comment
windowSize_NoMargin(style) == maxCommentSize(style)

\* windowSize of processStream and verifyStream
windowSize(style) == maxCommentSize(style) + 2

(***************************************************************************)
(* hash/crc32 with the IEEE polynomial, table driven as crc32.simpleUpdate *)
(***************************************************************************)
RECURSIVE Xor(_, _)
Xor(a, b) ==
  IF a = 0 THEN b
  ELSE IF b = 0 THEN a
  ELSE ((a + b) % 2) + 2 * Xor(a \div 2, b \div 2)

Xor32(x, y) == <<Xor(x[1], y[1]), Xor(x[2], y[2])>>

Not32(x) == <<65535 - x[1], 65535 - x[2]>>

Shr8(x) == <<x[1] \div 256, (x[1] % 256) * 256 + (x[2] \div 256)>>

\* crc32.IEEETable: entry i is i pushed through 8 rounds of the reflected
\* polynomial 0xEDB88320
IEEETable ==
  <<
    <<0, 0>>, <<30471, 12438>>, <<60942, 24876>>, <<39177, 20922>>,
    <<1901, 50201>>, <<28778, 62607>>, <<59747, 42293>>, <<40548, 38307>>,
    <<3803, 34866>>, <<31196, 47268>>, <<57557, 59678>>, <<38866, 55688>>,
    <<2486, 19499>>, <<32433, 31933>>, <<59320, 11527>>, <<37055, 7569>>,
    <<7607, 4196>>, <<27312, 8434>>, <<62393, 29000>>, <<33982, 16862>>,
    <<6874, 54397>>, <<28125, 58603>>, <<62676, 46417>>, <<33747, 34247>>,
    <<4972, 38998>>, <<25707, 43200>>, <<64866, 63866>>, <<35429, 51692>>,
    <<5121, 23631>>, <<25350, 27865>>, <<64015, 15715>>, <<36104, 3573>>,
    <<15214, 8392>>, <<19561, 4190>>, <<54624, 16868>>, <<41575, 29042>>,
    <<15363, 58577>>, <<19204, 54343>>, <<53773, 34301>>, <<42250, 46443>>,
    <<13749, 43258>>, <<17074, 39020>>, <<56251, 51670>>, <<44220, 63808>>,
    <<13016, 27875>>, <<17887, 23669>>, <<56534, 3535>>, <<43985, 15705>>,
    <<9945, 12460>>, <<20958, 58>>, <<51415, 20864>>, <<49104, 24854>>,
    <<8628, 62645>>, <<22195, 50211>>, <<53178, 38297>>, <<47293, 42255>>,
    <<10242, 47262>>, <<24325, 34824>>, <<50700, 55730>>, <<45323, 59684>>,
    <<12143, 31879>>, <<22632, 19473>>, <<49505, 7595>>, <<46694, 11581>>,
    <<30428, 16784>>, <<475, 28934>>, <<39122, 8380>>, <<61397, 4138>>,
    <<29105, 34185>>, <<1718, 46367>>, <<40895, 58533>>, <<59576, 54323>>,
    <<30727, 51618>>, <<3840, 63796>>, <<38409, 43150>>, <<57614, 38936>>,
    <<32618, 3515>>, <<2157, 15661>>, <<37220, 27799>>, <<58979, 23553>>,
    <<27499, 20980>>, <<7276, 24930>>, <<34149, 12504>>, <<62050, 78>>,
    <<27654, 38381>>, <<6913, 42363>>, <<33288, 62657>>, <<62735, 50263>>,
    <<26032, 55750>>, <<4791, 59728>>, <<35774, 47338>>, <<64697, 34940>>,
    <<25309, 7647>>, <<5594, 11593>>, <<36051, 31987>>, <<64468, 19557>>,
    <<19890, 24920>>, <<15029, 20942>>, <<41916, 116>>, <<54459, 12514>>,
    <<19167, 42305>>, <<15832, 38359>>, <<42193, 50285>>, <<54230, 62715>>,
    <<17257, 59754>>, <<13422, 55804>>, <<44391, 34886>>, <<55904, 47312>>,
    <<17412, 11635>>, <<13059, 7653>>, <<43530, 19551>>, <<56589, 31945>>,
    <<20485, 28988>>, <<9986, 16810>>, <<48651, 4112>>, <<51468, 8326>>,
    <<22376, 46373>>, <<8303, 34227>>, <<47462, 54281>>, <<52833, 58527>>,
    <<24286, 63758>>, <<10713, 51608>>, <<45264, 38946>>, <<51159, 43188>>,
    <<22963, 15639>>, <<11956, 3457>>, <<47037, 23611>>, <<49338, 27821>>,
    <<60856, 33568>>, <<39615, 46006>>, <<950, 57868>>, <<29873, 53914>>,
    <<60117, 18233>>, <<40402, 30639>>, <<1243, 9749>>, <<29660, 5763>>,
    <<58211, 2834>>, <<37988, 15236>>, <<3437, 27198>>, <<31338, 23208>>,
    <<58382, 53003>>, <<37641, 65437>>, <<2560, 44583>>, <<32007, 40625>>,
    <<61455, 37700>>, <<34568, 41938>>, <<7681, 62056>>, <<26886, 49918>>,
    <<63330, 22365>>, <<32869, 26571>>, <<6508, 13937>>, <<28267, 1767>>,
    <<65236, 7030>>, <<35283, 11232>>, <<4314, 31322>>, <<26589, 19148>>,
    <<63929, 57199>>, <<36542, 61433>>, <<6071, 48707>>, <<24752, 36565>>,
    <<54998, 41960>>, <<41425, 37758>>, <<14552, 49860>>, <<20447, 62034>>,
    <<53691, 26609>>, <<42684, 22375>>, <<16309, 1757>>, <<18610, 13899>>,
    <<55309, 11226>>, <<44810, 6988>>, <<13827, 19190>>, <<16644, 31328>>,
    <<57184, 61379>>, <<43111, 57173>>, <<12654, 36591>>, <<18025, 48761>>,
    <<52065, 45964>>, <<48230, 33562>>, <<9583, 53920>>, <<21096, 57910>>,
    <<52236, 30613>>, <<47883, 18179>>, <<8706, 5817>>, <<21765, 9775>>,
    <<50618, 15294>>, <<45757, 2856>>, <<11188, 23186>>, <<23731, 27140>>,
    <<49879, 65447>>, <<46544, 53041>>, <<11481, 40587>>, <<23518, 44573>>,
    <<39780, 49840>>, <<60515, 61990>>, <<30058, 41884>>, <<621, 37642>>,
    <<39945, 1705>>, <<60174, 13887>>, <<29191, 26501>>, <<1280, 22291>>,
    <<38335, 19074>>, <<58040, 31252>>, <<31665, 11182>>, <<3254, 6968>>,
    <<37586, 36507>>, <<58837, 48653>>, <<31964, 61367>>, <<3035, 57121>>,
    <<34515, 53972>>, <<61908, 57922>>, <<26845, 46072>>, <<8154, 33646>>,
    <<33214, 5837>>, <<63161, 9819>>, <<28592, 30689>>, <<6327, 18295>>,
    <<34824, 23270>>, <<65295, 27248>>, <<26118, 15306>>, <<4353, 2908>>,
    <<36709, 40703>>, <<63586, 44649>>, <<24939, 65491>>, <<5740, 53061>>,
    <<40970, 57976>>, <<55053, 53998>>, <<19972, 33620>>, <<14595, 46018>>,
    <<42855, 9825>>, <<53344, 5879>>, <<18793, 18253>>, <<15982, 30683>>,
    <<44753, 27210>>, <<55766, 23260>>, <<16607, 2918>>, <<14296, 15344>>,
    <<43452, 44627>>, <<57019, 40645>>, <<18354, 53119>>, <<12469, 65513>>,
    <<48573, 61980>>, <<51898, 49802>>, <<21427, 37680>>, <<9396, 41894>>,
    <<47824, 13829>>, <<52695, 1683>>, <<21726, 22313>>, <<9177, 26559>>,
    <<45926, 31278>>, <<50273, 19128>>, <<23912, 6914>>, <<10863, 11156>>,
    <<46091, 48695>>, <<49932, 36513>>, <<23045, 57115>>, <<11522, 61325>>
  >>

\* one byte of simpleUpdate: crc = tab[byte(crc) ^ v] ^ (crc >> 8)
crcByte(crc, v) == Xor32(IEEETable[Xor(crc[2] % 256, v) + 1], Shr8(crc))

\* simpleUpdate over p[lo..hi] (1-based, inclusive), left to right
RECURSIVE crcRange(_, _, _, _)
crcRange(crc, p, lo, hi) ==
  IF lo > hi THEN crc
  ELSE IF lo = hi THEN crcByte(crc, p[lo])
  ELSE LET mid == (lo + hi) \div 2
           left == crcRange(crc, p, lo, mid)
       IN IF left[1] >= 0 THEN crcRange(left, p, mid + 1, hi) ELSE left

\* crc32.NewIEEE(): a digest whose running crc is 0
NewIEEE == <<0, 0>>

\* hasher.Write(p): crc = ^simpleUpdate(^crc, tab, p)
HashWrite(crc, p) == Not32(crcRange(Not32(crc), p, 1, Len(p)))

\* hasher.Sum32()
Sum32(crc) == crc

\* crc32.ChecksumIEEE(p), the checksum of a whole byte string
ChecksumIEEE(p) == Sum32(HashWrite(NewIEEE, p))

(***************************************************************************)
(* Hex rendering and parsing                                               *)
(***************************************************************************)
\* one digit of fmt's %X
HexDigit(d) == IF d < 10 THEN 48 + d ELSE 55 + d

\* fmt.Sprintf("%08x", crc)
Hex8_Lower(crc) ==
  LET h(d) == IF d < 10 THEN 48 + d ELSE 87 + d
  IN << h(crc[1] \div 4096), h((crc[1] \div 256) % 16),
        h((crc[1] \div 16) % 16), h(crc[1] % 16),
        h(crc[2] \div 4096), h((crc[2] \div 256) % 16),
        h((crc[2] \div 16) % 16), h(crc[2] % 16) >>

\* fmt.Sprintf("%08X", crc)
Hex8(crc) ==
  << HexDigit(crc[1] \div 4096), HexDigit((crc[1] \div 256) % 16),
     HexDigit((crc[1] \div 16) % 16), HexDigit(crc[1] % 16),
     HexDigit(crc[2] \div 4096), HexDigit((crc[2] \div 256) % 16),
     HexDigit((crc[2] \div 16) % 16), HexDigit(crc[2] % 16) >>

\* encoding/hex fromHexChar: the value of a hex digit, -1 for any other byte
fromHexChar(c) ==
  IF c >= 48 /\ c <= 57 THEN c - 48
  ELSE IF c >= 97 /\ c <= 102 THEN c - 97 + 10
  ELSE IF c >= 65 /\ c <= 70 THEN c - 65 + 10
  ELSE -1

\* hex.DecodeString(s): [ok, bytes]; fails on an odd length or a non-hex byte
hexDecodeString(s) ==
  IF Len(s) % 2 = 1 \/ \E i \in 1..Len(s) : fromHexChar(s[i]) = -1
  THEN [ok |-> FALSE, bytes |-> <<>>]
  ELSE [ok |-> TRUE,
        bytes |-> [k \in 1..(Len(s) \div 2) |->
                     fromHexChar(s[2 * k - 1]) * 16 + fromHexChar(s[2 * k])]]

\* uint32(b[0])<<24 | uint32(b[1])<<16 | uint32(b[2])<<8 | uint32(b[3])
bytesToUint32(b) == <<b[1] * 256 + b[2], b[3] * 256 + b[4]>>

\* Writer.createComment: prefix + "FileIntegrity: " + %08X + suffix + lineEnding
createComment(style, crc, lineEnding) ==
  style.Prefix \o KeyText \o Hex8(crc) \o style.Suffix \o lineEnding

(***************************************************************************)
(* The marker pattern                                                      *)
(*   (?m)^<prefix>FileIntegrity: ([0-9A-F]{8})<suffix>\r?\n?$              *)
(***************************************************************************)
\* createCommentPattern: QuoteMeta makes prefix and suffix literals
createCommentPattern(style) == [prefix |-> style.Prefix, suffix |-> style.Suffix]

\* the literal lit stands in w at offset i
HasAt(w, i, lit) ==
  /\ i + Len(lit) <= Len(w)
  /\ \A k \in 1..Len(lit) : w[i + k] = lit[k]

\* [0-9A-Fa-f]
IsUpperHex_AnyCase(c) ==
  (c >= 48 /\ c <= 57) \/ (c >= 65 /\ c <= 70) \/ (c >= 97 /\ c <= 102)

\* [0-9A-F]
IsUpperHex(c) == (c >= 48 /\ c <= 57) \/ (c >= 65 /\ c <= 70)

\* (?m)^ at offset i: start of text or just after a \n
BOLAt(w, i) == i = 0 \/ w[i] = LF

\* (?m)$ at offset j: end of text or just before a \n
EOLAt(w, j) == j = Len(w) \/ w[j + 1] = LF

\* \r?\n?$ from offset e, greedy and leftmost-first: the end offset of the
\* match, -1 when no alternative reaches an end of line
TailEnd(w, e) ==
  IF e + 2 <= Len(w) /\ w[e + 1] = CR /\ w[e + 2] = LF /\ EOLAt(w, e + 2) THEN e + 2
  ELSE IF e + 1 <= Len(w) /\ w[e + 1] = CR /\ EOLAt(w, e + 1) THEN e + 1
  ELSE IF e + 1 <= Len(w) /\ w[e + 1] = LF /\ EOLAt(w, e + 1) THEN e + 1
  ELSE IF EOLAt(w, e) THEN e
  ELSE -1

\* the pattern matches with its first byte at offset i
MatchesAt(pattern, w, i) ==
  LET h == i + Len(pattern.prefix) + Len(KeyText)
      e == h + 8 + Len(pattern.suffix)
  IN /\ BOLAt(w, i)
     /\ e <= Len(w)
     /\ HasAt(w, i, pattern.prefix)
     /\ HasAt(w, i + Len(pattern.prefix), KeyText)
     /\ \A k \in 1..8 : IsUpperHex(w[h + k])
     /\ HasAt(w, h + 8, pattern.suffix)
     /\ TailEnd(w, e) # -1

\* regexp.FindSubmatchIndex: <<>> for nil, else the leftmost match as
\* <<match[0], match[1], match[2], match[3]>>
FindSubmatchIndex(pattern, w) ==
  LET starts == {i \in 0..Len(w) : MatchesAt(pattern, w, i)}
  IN IF starts = {} THEN <<>>
     ELSE LET i == CHOOSE s \in starts : \A t \in starts : s <= t
              h == i + Len(pattern.prefix) + Len(KeyText)
          IN <<i, TailEnd(w, h + 8 + Len(pattern.suffix)), h, h + 8>>

(***************************************************************************)
(* detectLineEnding: the style of the first newline, LF when there is none *)
(***************************************************************************)
detectLineEnding(content) ==
  LET nls == {i \in 1..Len(content) : content[i] = LF}
  IN IF nls = {} THEN <<LF>>
     ELSE LET i == CHOOSE s \in nls : \A t \in nls : s <= t
          IN IF i > 1 /\ content[i - 1] = CR THEN <<CR, LF>> ELSE <<LF>>

(***************************************************************************)
(* os.File as a byte source, and bufio.Writer over the temporary file      *)
(***************************************************************************)
\* (*os.File).Read(b) with len(b) = space at offset pos: as many bytes as
\* fit; (0, io.EOF) at the end of the file; (0, nil) for an empty b
FileRead(content, pos, space) ==
  LET k == IF Len(content) - pos < space THEN Len(content) - pos ELSE space
  IN [data |-> Slice(content, pos, pos + k),
      eof  |-> space > 0 /\ k = 0]

\* (*os.File).Write(p) on a file holding out, on a disk with room for cap
\* bytes in this file (-1: unlimited): a write that does not fit stores what
\* fits and reports an error
FileWrite(out, p, cap) ==
  IF cap = -1 \/ Len(out) + Len(p) <= cap
  THEN [out |-> out \o p, n |-> Len(p), err |-> FALSE]
  ELSE LET room == IF cap > Len(out) THEN cap - Len(out) ELSE 0
       IN [out |-> out \o Slice(p, 0, room), n |-> room, err |-> TRUE]

\* the size of bufio.Writer's buffer
BufioSize == 16

\* (*bufio.Writer).Flush on W = [buf, err, out]
BufioFlush(W, cap) ==
  IF W.err \/ W.buf = <<>> THEN W
  ELSE LET r == FileWrite(W.out, W.buf, cap)
       IN IF r.err
          THEN [buf |-> Slice(W.buf, r.n, Len(W.buf)), err |-> TRUE, out |-> r.out]
          ELSE [buf |-> <<>>, err |-> FALSE, out |-> r.out]

\* (*bufio.Writer).Write(p): while p does not fit, write it through (empty
\* buffer) or fill the buffer and flush; then buffer the rest.  The error is
\* sticky in W.err
RECURSIVE BufioWrite(_, _, _)
BufioWrite(W, p, cap) ==
  LET avail == BufioSize - Len(W.buf)
  IN IF Len(p) > avail /\ ~W.err
     THEN IF W.buf = <<>>
          THEN LET r == FileWrite(W.out, p, cap)
               IN BufioWrite([buf |-> <<>>, err |-> r.err, out |-> r.out],
                             Slice(p, r.n, Len(p)), cap)
          ELSE BufioWrite(BufioFlush([W EXCEPT !.buf = W.buf \o Slice(p, 0, avail)], cap),
                          Slice(p, avail, Len(p)), cap)
     ELSE IF W.err THEN W
     ELSE [W EXCEPT !.buf = W.buf \o p]

\* a run of writer.Write calls that stops at the first error, as every
\* `if _, err := writer.Write(..); err != nil { return }` does
RECURSIVE WriteAll(_, _, _)
WriteAll(W, writes, cap) ==
  IF writes = <<>> \/ W.err THEN W
  ELSE WriteAll(BufioWrite(W, Head(writes), cap), Tail(writes), cap)

(***************************************************************************)
(* Writer.finalizeWindow and Reader.verifyWindow on the final window       *)
(***************************************************************************)
\* the part of contentPart that goes into the CRC: one trailing \n, or \r\n,
\* is left out
\* crcContent that leaves the trailing line ending in
crcContent_Whole(contentPart) == contentPart

crcContent(contentPart) ==
  LET n == Len(contentPart)
  IN IF n = 0 THEN <<>>
     ELSE IF contentPart[n] = LF
          THEN IF n > 1 /\ contentPart[n - 1] = CR
               THEN Slice(contentPart, 0, n - 2)
               ELSE Slice(contentPart, 0, n - 1)
          ELSE contentPart

\* the existing CRC parsed from the hex digits of the match:
\* hex.DecodeString, then err == nil && len(crcBytes) == 4
parseCRC(crcHex) ==
  LET dec == hexDecodeString(crcHex)
  IN IF dec.ok /\ Len(dec.bytes) = 4
     THEN [ok |-> TRUE, crc |-> bytesToUint32(dec.bytes)]
     ELSE [ok |-> FALSE, crc |-> <<0, 0>>]

\* finalizeWindow from the no-op decision on: the writer.Write calls in order
finalizeWrites(style, window, contentPart, existing, calculatedCRC, lineEnding, start) ==
  [isNoOp |-> existing.ok /\ calculatedCRC = existing.crc,
   crc    |-> calculatedCRC,
   start  |-> start,
   writes |-> IF existing.ok /\ calculatedCRC = existing.crc
              THEN <<window>>
              ELSE <<contentPart>>
                   \o (IF Len(contentPart) > 0 /\ contentPart[Len(contentPart)] # LF
                       THEN <<lineEnding>> ELSE <<>>)
                   \o <<createComment(style, calculatedCRC, lineEnding)>>]

\* finalizeWindow once the match is known (match[k + 1] here is Go's
\* match[k], <<>> is nil): contentPart, existingCRC and hasExistingComment,
\* lineEnding, calculatedCRC
finalizeMatch(style, hasher, window, match, contentPart) ==
  finalizeWrites(style, window, contentPart,
                 IF match = <<>> THEN [ok |-> FALSE, crc |-> <<0, 0>>]
                 ELSE parseCRC(Slice(window, match[3], match[4])),
                 Sum32(HashWrite(hasher, crcContent(contentPart))),
                 detectLineEnding(window),
                 IF match = <<>> THEN -1 ELSE match[1])

\* contentBefore that never cuts the window at the match
contentBefore_WholeWindow(window, match) == window

\* contentPart: window[:match[0]], the whole window without a match
contentBefore(window, match) ==
  IF match = <<>> THEN window ELSE Slice(window, 0, match[1])

\* the pattern applied to the window
finalizeFound(style, hasher, window, match) ==
  finalizeMatch(style, hasher, window, match, contentBefore(window, match))

\* Writer.finalizeWindow: [isNoOp, crc: the calculated CRC, start: offset of
\* the existing comment in the window or -1, writes: the writer.Write calls]
finalizeWindow(pattern, style, hasher, window) ==
  finalizeFound(style, hasher, window, FindSubmatchIndex(pattern, window))

\* finalizeEmpty that ends the comment with no line ending
finalizeEmpty_NoLineEnding(style, hasher) == <<createComment(style, Sum32(hasher), <<>>)>>

\* Writer.finalizeEmpty: the comment over the CRC of nothing, with LF
finalizeEmpty(style, hasher) == <<createComment(style, Sum32(hasher), <<LF>>)>>

\* stripTrailingNewline that strips nothing
stripTrailingNewline_Nothing(contentPart) == contentPart

\* Reader.verifyWindow's contentPart after "strip trailing newline before
\* CRCing"
stripTrailingNewline(contentPart) ==
  LET n == Len(contentPart)
  IN IF n > 0 /\ contentPart[n] = LF
     THEN IF n > 1 /\ contentPart[n - 1] = CR
          THEN Slice(contentPart, 0, n - 2)
          ELSE Slice(contentPart, 0, n - 1)
     ELSE contentPart

\* verifyWindow after the match: the stored CRC against the calculated one
verifyMatch(hasher, window, match, stored) ==
  IF ~stored.ok THEN "invalid CRC format"
  ELSE IF Sum32(HashWrite(hasher, stripTrailingNewline(Slice(window, 0, match[1]))))
          = stored.crc
       THEN "true" ELSE "false"

verifyFound(hasher, window, match) ==
  IF match = <<>> THEN "no integrity comment found"
  ELSE verifyMatch(hasher, window, match, parseCRC(Slice(window, match[3], match[4])))

\* Reader.verifyWindow: "true", "false", or the error
verifyWindow(pattern, hasher, window) ==
  verifyFound(hasher, window, FindSubmatchIndex(pattern, window))

(***************************************************************************)
(* Bounds of the model                                                     *)
(***************************************************************************)
\* longest variable part of an initial file
MaxBody == 2

\* bytes of the variable part: 'a', CR, LF
BodyBytes == {97, CR, LF}
\* bytes a mutation writes: 'b', CR
TamperBytes == {98, CR}
\* how many bytes before the marker the mutated byte lies (0: the byte just
\* before the marker); the first byte of the file is mutated as well
TamperBacks == {0, 1, 2}
\* <<k, s>>: an initial file starts with a run of k 'a' and is processed with
\* BufferSize = windowSize + s; so a file is shorter than the window, or
\* longer than the window and read in one piece, or read in several pieces
Shapes == {<<0, 48>>, <<33, 48>>, <<33, 5>>}
\* the styles of the configurations
Styles == {GoStyle, HTMLStyle}
\* permission bits: 0644 for the target, 0600 for a file os.CreateTemp makes
FileMode == 420
TempMode == 384

RECURSIVE SeqsUpTo(_, _)
SeqsUpTo(S, n) ==
  IF n = 0 THEN {<<>>}
  ELSE LET shorter == SeqsUpTo(S, n - 1)
       IN shorter \cup {Append(s, b) : s \in {t \in shorter : Len(t) = n - 1}, b \in S}

Filler(k) == [i \in 1..k |-> 97]

\* what an initial file ends with: nothing, or a marker line whose value is
\* 00000000 or 12345678, ended by nothing, LF or CRLF
Tails(st) ==
  {<<>>, createComment(st, <<0, 0>>, <<LF>>)}
  \cup {createComment(st, <<4660, 22136>>, le) : le \in {<<>>, <<LF>>, <<CR, LF>>}}

\* a content whose checksum is the same with and without its last byte 'e':
\* crc32(01 1A C5 C0) = crc32(01 1A C5 C0 65) = A5A07F64
ShiftBody == <<1, 26, 197, 192, 101, LF>>

InitFiles(st, k) ==
  {Filler(k) \o body \o tail : body \in SeqsUpTo(BodyBytes, MaxBody), tail \in Tails(st)}
  \cup (IF k = 0 THEN {ShiftBody} ELSE {})

(***************************************************************************)
(* State                                                                   *)
(***************************************************************************)
VARIABLES
  style, bufferSize,        \* Config.CommentStyle, Config.BufferSize
  diskCap,                  \* bytes the disk can hold in the temporary file, -1: no limit
  file, mode, mtime,        \* the target path: content, permission bits, modification time
  tmpExists, tmp, tmpMode,  \* the temporary file of the running ProcessFile
  pc,                       \* where ProcessFile stands
  origMode,                 \* origInfo.Mode()
  srcOpen, dstOpen,         \* the handles src and dst
  srcPos,                   \* read offset of src
  buffer,                   \* buffer[0:n] of processStream
  firstRead, eof,
  hasher,                   \* running crc of the hasher
  wbuf, werr,               \* bufio.Writer: buffered bytes, sticky error
  isNoOp,                   \* what processStream returned
  err,                      \* what the last ProcessFile returned ("nil", "error"), "none" while one runs or once the file was mutated
  rpc,                      \* where VerifyFile stands
  rpos, rbuffer, rfirst, reof, rhasher,  \* verifyStream's src offset, buffer[0:n], firstRead, eof, hasher
  vres,                     \* what the last VerifyFile returned: "none", "true", "false" or its error
  orig,                     \* history: the target when the running or last ProcessFile began
  out,                      \* history: every byte handed to writer.Write by that call, in order
  markerOff,                \* history: offset of the marker in the stamped file
  failed,                   \* history: a step of that call failed
  stamped,                  \* history: the target is as the last successful ProcessFile left it
  fromStamped,              \* history: stamped, when the running or last ProcessFile began
  stampInput,               \* history: the content the stamp was first made from
  tamperBack,               \* history: -1, or how many bytes before the marker the byte lies that was mutated
  chownFailed,              \* history: the os.Chown of that call failed
  fnArg, fnRes,             \* a call of a function of the package by itself: its arguments, its results
  dir,                      \* concurrent invocations: the directory they share, name -> file
  inv,                      \* concurrent invocations: invocation -> its arguments, locals and result
  cli,                      \* a run of the hashfile command: its arguments, locals and exit code
  rd                        \* a stream pass over an io.Reader that splits its bytes across reads

cfgVars == <<style, bufferSize, diskCap>>
fsVars == <<file, mode, mtime, tmpExists, tmp, tmpMode>>
wVars == <<pc, origMode, srcOpen, dstOpen, srcPos, buffer, firstRead, eof, hasher,
           wbuf, werr, isNoOp, err>>
rVars == <<rpc, rpos, rbuffer, rfirst, reof, rhasher, vres>>
hVars == <<orig, out, markerOff, failed, stamped, fromStamped, stampInput, tamperBack,
           chownFailed>>
fnVars == <<fnArg, fnRes>>
parVars == <<dir, inv>>
cmdVars == <<cli, rd>>
vars == <<cfgVars, fsVars, wVars, rVars, hVars, fnVars, parVars, cmdVars>>

\* no function is called by itself
NoCall == [fn |-> "none", crc |-> <<0, 0>>, lineEnding |-> <<>>, ext |-> ""]
NoResult == [step |-> 0, comment |-> <<>>, match |-> <<>>,
             value |-> [ok |-> FALSE, crc |-> <<0, 0>>],
             config |-> [CommentStyle |-> GoStyle, BufferSize |-> 0]]

\* nothing has run yet
InitLocals ==
  /\ mtime = 0
  /\ tmpExists = FALSE /\ tmp = <<>> /\ tmpMode = 0
  /\ pc = "idle" /\ origMode = 0 /\ srcOpen = FALSE /\ dstOpen = FALSE /\ srcPos = 0
  /\ buffer = <<>> /\ firstRead = FALSE /\ eof = FALSE /\ hasher = NewIEEE
  /\ wbuf = <<>> /\ werr = FALSE /\ isNoOp = FALSE /\ err = "none"
  /\ rpc = "idle" /\ rpos = 0 /\ rbuffer = <<>> /\ rfirst = FALSE /\ reof = FALSE
  /\ rhasher = NewIEEE /\ vres = "none"
  /\ orig = [content |-> <<>>, mode |-> 0, mtime |-> 0]
  /\ out = <<>> /\ markerOff = -1 /\ failed = FALSE
  /\ stamped = FALSE /\ fromStamped = FALSE /\ stampInput = <<>> /\ tamperBack = -1
  /\ chownFailed = FALSE

\* no invocations run side by side
NoInvocations == dir = <<>> /\ inv = <<>>

\* no command runs, no io.Reader is streamed
NoCommand == cli = <<>> /\ rd = <<>>

InitCommon ==
  /\ style \in Styles
  /\ fnArg = NoCall /\ fnRes = NoResult
  /\ NoInvocations /\ NoCommand
  /\ InitLocals

\* any of the initial files, on a disk that never fills
Init ==
  /\ InitCommon
  /\ mode = FileMode
  /\ diskCap = -1
  /\ \E sh \in Shapes :
       /\ bufferSize = windowSize(style) + sh[2]
       /\ file \in InitFiles(style, sh[1])

(***************************************************************************)
(* Writer.ProcessFile                                                      *)
(***************************************************************************)
\* writer := bufio.NewWriter(dst), with the temporary file behind it
writer == [buf |-> wbuf, err |-> werr, out |-> tmp]

\* what every return of ProcessFile leaves behind: both handles closed by
\* the deferred calls, the locals of the call gone
WriterLocalsGone ==
  /\ pc' = "idle"
  /\ origMode' = 0 /\ srcOpen' = FALSE /\ dstOpen' = FALSE /\ srcPos' = 0
  /\ buffer' = <<>> /\ firstRead' = FALSE /\ eof' = FALSE /\ hasher' = NewIEEE
  /\ wbuf' = <<>> /\ werr' = FALSE

\* ReturnError without the os.Remove(tmpName) of the deferred function
ReturnError_KeepsTemp ==
  /\ WriterLocalsGone
  /\ err' = "error" /\ isNoOp' = FALSE
  /\ failed' = TRUE
  /\ UNCHANGED <<file, mode, mtime, tmpExists, tmp, tmpMode>>
  /\ UNCHANGED <<out, markerOff, stamped, stampInput, tamperBack>>

\* return fmt.Errorf(...) once the temporary file exists or before: the
\* deferred function closes dst and, success being false, removes it
ReturnError ==
  /\ WriterLocalsGone
  /\ err' = "error" /\ isNoOp' = FALSE
  /\ tmpExists' = FALSE /\ tmp' = <<>> /\ tmpMode' = 0
  /\ failed' = TRUE
  /\ UNCHANGED <<file, mode, mtime>>
  /\ UNCHANGED <<out, markerOff, stamped, stampInput, tamperBack>>

\* the call begins (history only)
CallBegins ==
  /\ orig' = [content |-> file, mode |-> mode, mtime |-> mtime]
  /\ fromStamped' = stamped
  /\ chownFailed' = FALSE

\* os.Stat(filename)
PF_Stat ==
  /\ pc = "idle" /\ rpc = "idle"
  /\ pc' = "open"
  /\ origMode' = mode
  /\ err' = "none" /\ isNoOp' = FALSE
  /\ CallBegins
  /\ out' = <<>> /\ failed' = FALSE
  /\ vres' = "none"
  /\ UNCHANGED <<cfgVars, fnVars, parVars, cmdVars, fsVars, srcOpen, dstOpen, srcPos, buffer, firstRead, eof,
                 hasher, wbuf, werr, rpc, rpos, rbuffer, rfirst, reof, rhasher,
                 markerOff, stamped, stampInput, tamperBack>>

\* os.Stat fails
PF_StatFail ==
  /\ pc = "idle" /\ rpc = "idle"
  /\ CallBegins
  /\ ReturnError
  /\ vres' = "none"
  /\ UNCHANGED <<cfgVars, fnVars, parVars, cmdVars, rpc, rpos, rbuffer, rfirst, reof, rhasher>>

\* os.Open(filename)
PF_Open ==
  /\ pc = "open"
  /\ pc' = "create"
  /\ srcOpen' = TRUE /\ srcPos' = 0
  /\ UNCHANGED <<cfgVars, fnVars, parVars, cmdVars, fsVars, origMode, dstOpen, buffer, firstRead, eof, hasher,
                 wbuf, werr, isNoOp, err, rVars, hVars>>

\* os.Open fails
PF_OpenFail ==
  /\ pc = "open"
  /\ ReturnError
  /\ UNCHANGED <<cfgVars, fnVars, parVars, cmdVars, rVars, orig, fromStamped, chownFailed>>

\* os.CreateTemp(dir, ".hashfile_*.tmp")
PF_CreateTemp ==
  /\ pc = "create"
  /\ pc' = "read1"
  /\ tmpExists' = TRUE /\ tmp' = <<>> /\ tmpMode' = TempMode
  /\ dstOpen' = TRUE
  /\ UNCHANGED <<cfgVars, fnVars, parVars, cmdVars, file, mode, mtime, origMode, srcOpen, srcPos, buffer, firstRead,
                 eof, hasher, wbuf, werr, isNoOp, err, rVars, hVars>>

\* os.CreateTemp fails
PF_CreateTempFail ==
  /\ pc = "create"
  /\ ReturnError
  /\ UNCHANGED <<cfgVars, fnVars, parVars, cmdVars, rVars, orig, fromStamped, chownFailed>>

\* processStream returns (isNoOp, nil): the deferred writer.Flush() runs and
\* its error is dropped
StreamReturns(W1, noop, written, off) ==
  LET W2 == BufioFlush(W1, diskCap)
  IN /\ pc' = "close"
     /\ isNoOp' = noop
     /\ tmp' = W2.out /\ wbuf' = W2.buf /\ werr' = W2.err
     /\ failed' = (failed \/ W2.err)
     /\ out' = out \o written
     /\ markerOff' = off
     /\ buffer' = <<>> /\ firstRead' = FALSE /\ eof' = FALSE /\ hasher' = NewIEEE
     /\ UNCHANGED <<file, mode, mtime, tmpExists, tmpMode, origMode, srcOpen, dstOpen,
                    err, orig, stamped, fromStamped, stampInput, tamperBack, chownFailed>>

RECURSIVE Concat(_)
Concat(ss) == IF ss = <<>> THEN <<>> ELSE Head(ss) \o Concat(Tail(ss))

\* processStream up to the first read; an empty file goes to finalizeEmpty
PS_FirstRead ==
  /\ pc = "read1"
  /\ LET r == FileRead(file, srcPos, bufferSize)
     IN IF Len(r.data) = 0
        THEN LET writes == finalizeEmpty(style, NewIEEE)
                 W1 == WriteAll([buf |-> <<>>, err |-> FALSE, out |-> tmp], writes, diskCap)
             IN IF W1.err
                THEN ReturnError /\ UNCHANGED <<orig, fromStamped, chownFailed>>
                ELSE StreamReturns(W1, FALSE, Concat(writes), 0) /\ srcPos' = srcPos
        ELSE /\ pc' = "loop"
             /\ buffer' = r.data /\ srcPos' = srcPos + Len(r.data)
             /\ firstRead' = TRUE /\ eof' = r.eof
             /\ hasher' = NewIEEE /\ wbuf' = <<>> /\ werr' = FALSE
             /\ UNCHANGED <<fsVars, origMode, srcOpen, dstOpen, isNoOp, err, hVars>>
  /\ UNCHANGED <<cfgVars, fnVars, parVars, cmdVars, rVars>>

\* the first src.Read fails
PS_FirstReadFail ==
  /\ pc = "read1"
  /\ ReturnError
  /\ UNCHANGED <<cfgVars, fnVars, parVars, cmdVars, rVars, orig, fromStamped, chownFailed>>

\* a slide that keeps the bytes from one before the window on
SlideWindow_OneEarly(buf, done, n) == Slice(buf, IF done > 0 THEN done - 1 ELSE 0, n)

\* copy(buffer, buffer[done:n]): the window that stays in the buffer after
\* buffer[:done] was written and hashed
SlideWindow(buf, done, n) == Slice(buf, done, n)

\* a first pass that keeps four bytes more than the window
WriteLen_FirstKeepsMore(first, n, ws) ==
  IF first THEN (IF n > ws + 4 THEN n - ws - 4 ELSE 0) ELSE n - ws

\* the bytes one pass of the loop writes out and hashes: all but the last
\* windowSize bytes of buffer[0:n]; nothing on a first pass with n <= windowSize
WriteLen(first, n, ws) == IF first THEN (IF n > ws THEN n - ws ELSE 0) ELSE n - ws

\* one pass of `for !eof`
PS_Loop ==
  /\ pc = "loop" /\ ~eof
  /\ LET ws == windowSize(style)
         n == Len(buffer)
         writeLen == WriteLen(firstRead, n, ws)
     IN IF writeLen < 0
        THEN \* buffer[:n-windowSize] with n < windowSize: slice bounds out of range
             /\ pc' = "panic"
             /\ UNCHANGED <<fsVars, origMode, srcOpen, dstOpen, srcPos, buffer, firstRead,
                            eof, hasher, wbuf, werr, isNoOp, err, hVars>>
        ELSE LET chunk == Slice(buffer, 0, writeLen)
                 calls_Write == ~firstRead \/ n > ws
                 W1 == IF calls_Write THEN BufioWrite(writer, chunk, diskCap) ELSE writer
             IN IF W1.err
                THEN ReturnError /\ UNCHANGED <<orig, fromStamped, chownFailed>>
                ELSE LET kept == SlideWindow(buffer, writeLen, n)
                         r == FileRead(file, srcPos, bufferSize - Len(kept))
                     IN /\ tmp' = W1.out /\ wbuf' = W1.buf /\ werr' = W1.err
                        /\ hasher' = HashWrite(hasher, chunk)
                        /\ out' = out \o chunk
                        /\ buffer' = kept \o r.data
                        /\ srcPos' = srcPos + Len(r.data)
                        /\ eof' = r.eof
                        /\ firstRead' = FALSE
                        /\ UNCHANGED <<pc, file, mode, mtime, tmpExists, tmpMode, origMode,
                                       srcOpen, dstOpen, isNoOp, err, orig, markerOff,
                                       failed, stamped, fromStamped, stampInput,
                                       tamperBack, chownFailed>>
  /\ UNCHANGED <<cfgVars, fnVars, parVars, cmdVars, rVars>>

\* a src.Read inside the loop fails
PS_LoopReadFail ==
  /\ pc = "loop" /\ ~eof
  /\ ReturnError
  /\ UNCHANGED <<cfgVars, fnVars, parVars, cmdVars, rVars, orig, fromStamped, chownFailed>>

\* processStream's return of finalizeWindow's result fin, W1 being the
\* writer after fin.writes
FinalizeReturns(fin, W1) ==
  IF W1.err
  THEN ReturnError /\ UNCHANGED <<orig, fromStamped, chownFailed>>
  ELSE /\ StreamReturns(W1, fin.isNoOp, Concat(fin.writes),
                        IF fin.isNoOp THEN Len(out) + fin.start
                        ELSE Len(out) + Len(Concat(fin.writes))
                             - Len(fin.writes[Len(fin.writes)]))
       /\ srcPos' = srcPos

FinalizeWrites(fin) == FinalizeReturns(fin, WriteAll(writer, fin.writes, diskCap))

\* at EOF: finalizeWindow(writer, hasher, buffer[:n])
PS_Finalize ==
  /\ pc = "loop" /\ eof
  /\ FinalizeWrites(finalizeWindow(createCommentPattern(style), style, hasher, buffer))
  /\ UNCHANGED <<cfgVars, fnVars, parVars, cmdVars, rVars>>

\* a successful return of ProcessFile (history only)
NowStamped ==
  /\ stamped' = TRUE
  /\ UNCHANGED <<tamperBack, chownFailed>>
  /\ stampInput' = IF fromStamped THEN stampInput ELSE orig.content

\* PF_NoOp without the os.Remove(tmpName)
PF_NoOp_KeepsTemp ==
  /\ pc = "close" /\ isNoOp
  /\ WriterLocalsGone
  /\ err' = "nil"
  /\ NowStamped
  /\ UNCHANGED <<cfgVars, fnVars, parVars, cmdVars, fsVars, isNoOp, rVars, orig, out, markerOff, failed, fromStamped>>

\* src.Close(); dst.Close(); isNoOp: os.Remove(tmpName); return nil
PF_NoOp ==
  /\ pc = "close" /\ isNoOp
  /\ WriterLocalsGone
  /\ err' = "nil"
  /\ tmpExists' = FALSE /\ tmp' = <<>> /\ tmpMode' = 0
  /\ NowStamped
  /\ UNCHANGED <<cfgVars, fnVars, parVars, cmdVars, file, mode, mtime, isNoOp, rVars, orig, out, markerOff, failed,
                 fromStamped>>

\* Preserve without the os.Chmod
Preserve_NoChmod(chownErr) ==
  /\ pc = "close" /\ ~isNoOp
  /\ pc' = "rename"
  /\ srcOpen' = FALSE /\ dstOpen' = FALSE
  /\ chownFailed' = chownErr
  /\ UNCHANGED <<cfgVars, fnVars, parVars, cmdVars, file, mode, mtime, tmpExists, tmp, tmpMode, origMode, srcPos, buffer,
                 firstRead, eof, hasher, wbuf, werr, isNoOp, err, rVars,
                 orig, out, markerOff, failed, stamped, fromStamped, stampInput, tamperBack>>

\* src.Close(); dst.Close(); preserveAttributes: os.Chmod(tmpName, origInfo.Mode()),
\* then os.Chown, whose error is ignored; chownErr tells whether it failed
Preserve(chownErr) ==
  /\ pc = "close" /\ ~isNoOp
  /\ pc' = "rename"
  /\ srcOpen' = FALSE /\ dstOpen' = FALSE
  /\ tmpMode' = origMode
  /\ chownFailed' = chownErr
  /\ UNCHANGED <<cfgVars, fnVars, parVars, cmdVars, file, mode, mtime, tmpExists, tmp, origMode, srcPos, buffer,
                 firstRead, eof, hasher, wbuf, werr, isNoOp, err, rVars,
                 orig, out, markerOff, failed, stamped, fromStamped, stampInput, tamperBack>>

\* preserveAttributes, os.Chown succeeding
PF_Preserve == Preserve(FALSE)

\* preserveAttributes returning the error of os.Chown
PF_PreserveChownFail_Fatal ==
  /\ pc = "close" /\ ~isNoOp
  /\ ReturnError
  /\ chownFailed' = TRUE
  /\ UNCHANGED <<cfgVars, fnVars, parVars, cmdVars, rVars, orig, fromStamped>>

\* preserveAttributes, os.Chown failing (no right to change the owner)
PF_PreserveChownFail == Preserve(TRUE)

\* os.Chmod fails
PF_ChmodFail ==
  /\ pc = "close" /\ ~isNoOp
  /\ ReturnError
  /\ UNCHANGED <<cfgVars, fnVars, parVars, cmdVars, rVars, orig, fromStamped, chownFailed>>

\* os.Rename(tmpName, filename); return nil
PF_Rename ==
  /\ pc = "rename"
  /\ WriterLocalsGone
  /\ err' = "nil"
  /\ file' = tmp /\ mode' = tmpMode /\ mtime' = mtime + 1
  /\ tmpExists' = FALSE /\ tmp' = <<>> /\ tmpMode' = 0
  /\ NowStamped
  /\ UNCHANGED <<cfgVars, fnVars, parVars, cmdVars, isNoOp, rVars, orig, out, markerOff, failed, fromStamped>>

\* os.Rename fails
PF_RenameFail ==
  /\ pc = "rename"
  /\ ReturnError
  /\ UNCHANGED <<cfgVars, fnVars, parVars, cmdVars, rVars, orig, fromStamped, chownFailed>>

(***************************************************************************)
(* Reader.VerifyFile                                                       *)
(***************************************************************************)
\* VerifyFile returns: the deferred file.Close(), the locals gone
ReaderReturns(result) ==
  /\ rpc' = "idle"
  /\ vres' = result
  /\ rpos' = 0 /\ rbuffer' = <<>> /\ rfirst' = FALSE /\ reof' = FALSE /\ rhasher' = NewIEEE

\* os.Open(filename)
V_Open ==
  /\ pc = "idle" /\ rpc = "idle" /\ vres = "none"
  /\ rpc' = "read1"
  /\ rpos' = 0
  /\ UNCHANGED <<cfgVars, fnVars, parVars, cmdVars, fsVars, wVars, rbuffer, rfirst, reof, rhasher, vres, hVars>>

\* os.Open fails
V_OpenFail ==
  /\ pc = "idle" /\ rpc = "idle" /\ vres = "none"
  /\ ReaderReturns("failed to open file")
  /\ UNCHANGED <<cfgVars, fnVars, parVars, cmdVars, fsVars, wVars, hVars>>

\* verifyStream up to the first read; an empty file is an error
V_FirstRead ==
  /\ rpc = "read1"
  /\ LET r == FileRead(file, rpos, bufferSize)
     IN IF Len(r.data) = 0
        THEN ReaderReturns("empty file")
        ELSE /\ rpc' = "loop"
             /\ rbuffer' = r.data /\ rpos' = rpos + Len(r.data)
             /\ rfirst' = TRUE /\ reof' = r.eof
             /\ rhasher' = NewIEEE
             /\ UNCHANGED vres
  /\ UNCHANGED <<cfgVars, fnVars, parVars, cmdVars, fsVars, wVars, hVars>>

\* the bytes one pass of verifyStream's loop hashes
HashLen(first, n, ws) == IF first THEN (IF n > ws THEN n - ws ELSE 0) ELSE n - ws

\* one pass of `for !eof`
V_Loop ==
  /\ rpc = "loop" /\ ~reof
  /\ LET ws == windowSize(style)
         n == Len(rbuffer)
         hashLen == HashLen(rfirst, n, ws)
     IN IF hashLen < 0
        THEN \* buffer[:n-windowSize] with n < windowSize: slice bounds out of range
             /\ rpc' = "panic"
             /\ UNCHANGED <<rpos, rbuffer, rfirst, reof, rhasher, vres>>
        ELSE LET kept == SlideWindow(rbuffer, hashLen, n)
                 r == FileRead(file, rpos, bufferSize - Len(kept))
             IN /\ rhasher' = HashWrite(rhasher, Slice(rbuffer, 0, hashLen))
                /\ rbuffer' = kept \o r.data
                /\ rpos' = rpos + Len(r.data)
                /\ reof' = r.eof
                /\ rfirst' = FALSE
                /\ UNCHANGED <<rpc, vres>>
  /\ UNCHANGED <<cfgVars, fnVars, parVars, cmdVars, fsVars, wVars, hVars>>

\* a src.Read of verifyStream fails
V_ReadFail ==
  /\ rpc = "read1" \/ (rpc = "loop" /\ ~reof)
  /\ ReaderReturns("read error")
  /\ UNCHANGED <<cfgVars, fnVars, parVars, cmdVars, fsVars, wVars, hVars>>

\* at EOF: verifyWindow(hasher, buffer[:n])
V_Final ==
  /\ rpc = "loop" /\ reof
  /\ ReaderReturns(verifyWindow(createCommentPattern(style), rhasher, rbuffer))
  /\ UNCHANGED <<cfgVars, fnVars, parVars, cmdVars, fsVars, wVars, hVars>>

\* the errors of VerifyFile
VerifyErrors == {"failed to open file", "read error", "empty file",
                 "no integrity comment found", "invalid CRC format"}

(***************************************************************************)
(* The environment: once in a behaviour, one byte of a stamped file before *)
(* its marker is overwritten                                               *)
(***************************************************************************)
Tamper ==
  /\ pc = "idle" /\ rpc = "idle"
  /\ stamped /\ tamperBack = -1
  /\ \E back \in TamperBacks \cup {markerOff - 1} :
       /\ back >= 0 /\ markerOff - back >= 1
       /\ \E b \in TamperBytes \ {file[markerOff - back]} :
            /\ file' = [file EXCEPT ![markerOff - back] = b]
            /\ tamperBack' = back
  /\ mtime' = mtime + 1
  /\ stamped' = FALSE
  /\ vres' = "none" /\ err' = "none"
  /\ UNCHANGED <<cfgVars, fnVars, parVars, cmdVars, mode, tmpExists, tmp, tmpMode, pc, origMode, srcOpen, dstOpen,
                 srcPos, buffer, firstRead, eof, hasher, wbuf, werr, isNoOp,
                 rpc, rpos, rbuffer, rfirst, reof, rhasher,
                 orig, out, markerOff, failed, fromStamped, stampInput, chownFailed>>

(***************************************************************************)
(* Specifications                                                          *)
(***************************************************************************)
Next ==
  \/ PF_Stat \/ PF_Open \/ PF_CreateTemp
  \/ PS_FirstRead \/ PS_Loop \/ PS_Finalize
  \/ PF_NoOp \/ PF_Preserve \/ PF_Rename
  \/ V_Open \/ V_FirstRead \/ V_Loop \/ V_Final
  \/ Tamper

\* every file operation succeeds
Spec == Init /\ [][Next]_vars

\* sizes at which the disk fills while the temporary file is written
DiskCaps == {-1, 0, 20}

\* initial files of the runs in which file operations may fail
IOFiles(st, k) ==
  {Filler(k) \o body \o tail :
     body \in {<<>>, <<97, LF>>, <<CR>>},
     tail \in {<<>>, createComment(st, <<0, 0>>, <<LF>>),
               createComment(st, <<4660, 22136>>, <<LF>>)}}

InitIO ==
  /\ InitCommon
  /\ mode = FileMode
  /\ diskCap \in DiskCaps
  /\ \E sh \in Shapes :
       /\ bufferSize = windowSize(style) + sh[2]
       /\ file \in IOFiles(style, sh[1])

NextIO ==
  \/ Next
  \/ PF_StatFail \/ PF_OpenFail \/ PF_CreateTempFail
  \/ PS_FirstReadFail \/ PS_LoopReadFail
  \/ PF_ChmodFail \/ PF_RenameFail
  \/ V_OpenFail \/ V_ReadFail

\* any file operation may fail
SpecIO == InitIO /\ [][NextIO]_vars

(***************************************************************************)
(* Vocabulary of the properties                                            *)
(***************************************************************************)
\* nothing, LF, CRLF: what may follow a marker
LineEnds == {<<>>, <<LF>>, <<CR, LF>>}

\* length of a marker without its line ending
MarkerLen(st) == Len(st.Prefix) + Len(KeyText) + 8 + Len(st.Suffix)

\* offset of the eight hex digits of a marker that starts at offset i
DigitsOff(st, i) == i + Len(st.Prefix) + Len(KeyText)

\* the text of a marker stands in f at offset i
MarkerShapeAt(f, i, st) ==
  /\ i >= 0 /\ i + MarkerLen(st) <= Len(f)
  /\ HasAt(f, i, st.Prefix \o KeyText)
  /\ \A k \in 1..8 : IsUpperHex(f[DigitsOff(st, i) + k])
  /\ HasAt(f, DigitsOff(st, i) + 8, st.Suffix)

\* the last line of f is a marker that starts at offset i and is ended by le
LastLineMarkerAt(f, i, st, le) ==
  /\ MarkerShapeAt(f, i, st)
  /\ i + MarkerLen(st) + Len(le) = Len(f)
  /\ Slice(f, i + MarkerLen(st), Len(f)) = le
  /\ (i = 0 \/ f[i] = LF)

\* the last line of f is a marker ended by le
LastLineMarker(f, st, le) == LastLineMarkerAt(f, Len(f) - MarkerLen(st) - Len(le), st, le)

\* c without one trailing LF or CRLF
StripLE(c) ==
  IF Len(c) > 0 /\ c[Len(c)] = LF
  THEN (IF Len(c) > 1 /\ c[Len(c) - 1] = CR
        THEN Slice(c, 0, Len(c) - 2) ELSE Slice(c, 0, Len(c) - 1))
  ELSE c

\* the marker at offset i of f carries the CRC-32 of what precedes it, one
\* trailing line ending left out
CarriesChecksumAt(f, i, st) ==
  Slice(f, DigitsOff(st, i), DigitsOff(st, i) + 8) = Hex8(ChecksumIEEE(StripLE(Slice(f, 0, i))))

\* the last line of f is a marker, ended by le, that carries the checksum
UpToDate(f, st, le) ==
  /\ LastLineMarker(f, st, le)
  /\ CarriesChecksumAt(f, Len(f) - MarkerLen(st) - Len(le), st)

\* a ProcessFile call has just returned
JustReturned == pc = "idle" /\ rpc = "idle" /\ err # "none" /\ vres = "none"

\* a VerifyFile call has returned
Verified == pc = "idle" /\ rpc = "idle" /\ vres # "none"

(***************************************************************************)
(* Properties                                                              *)
(***************************************************************************)
\* C1 (round trip): whenever ProcessFile has succeeded on a file and
\* VerifyFile is then run on the result with the same configuration,
\* VerifyFile returns (true, nil).
C1_RoundTrip == (Verified /\ err = "nil") => vres = "true"

\* C2 (idempotence): a ProcessFile run that starts on the result of a
\* successful ProcessFile run on a non-empty input succeeds and leaves the
\* file byte-identical and its modification time unchanged.
C2_Idempotence ==
  (JustReturned /\ fromStamped /\ stampInput # <<>>)
    => (err = "nil" /\ file = orig.content /\ mtime = orig.mtime)

\* C3 (no-op frame): when the file ProcessFile is called on ends with a
\* well-formed marker that carries the checksum of the content before it,
\* ProcessFile returns nil, the target's content, mode and modification time
\* are as before the call and the temporary file is gone.
C3_NoOpFrame ==
  \A le \in LineEnds :
    (JustReturned /\ UpToDate(orig.content, style, le))
      => /\ err = "nil"
         /\ file = orig.content /\ mode = orig.mode /\ mtime = orig.mtime
         /\ ~tmpExists

\* a call on an up-to-date file that holds content before its marker has returned
C3_Witness ==
  /\ JustReturned /\ isNoOp /\ err = "nil"
  /\ Len(orig.content) > MarkerLen(style) + 1
  /\ UpToDate(orig.content, style, <<LF>>)

\* the final window of a file: its last windowSize bytes start at this offset
WindowStart(f, st) == IF Len(f) > windowSize(st) THEN Len(f) - windowSize(st) ELSE 0

\* j is the end of a marker line: end of file or LF, after an optional CR
LineEndsAt(f, j) ==
  \/ j = Len(f)
  \/ f[j + 1] = LF
  \/ (f[j + 1] = CR /\ (j + 1 = Len(f) \/ f[j + 2] = LF))

\* offsets in the final window at which a well-formed marker line starts
MarkerStarts(f, st) ==
  {i \in WindowStart(f, st)..Len(f) :
     /\ MarkerShapeAt(f, i, st)
     /\ (i = WindowStart(f, st) \/ f[i] = LF)
     /\ LineEndsAt(f, i + MarkerLen(st))}

\* the first of them
FirstMarker(f, st) ==
  CHOOSE i \in MarkerStarts(f, st) : \A j \in MarkerStarts(f, st) : i <= j

\* what the checksum of the marker at offset i covers: the bytes before the
\* marker, without the LF that ends them and the CR before it when these lie
\* in the final window
CoveredBefore(f, i, st) ==
  IF i > WindowStart(f, st) /\ f[i] = LF
  THEN (IF i - 1 > WindowStart(f, st) /\ f[i - 1] = CR
        THEN Slice(f, 0, i - 2) ELSE Slice(f, 0, i - 1))
  ELSE Slice(f, 0, i)

\* the marker at offset i carries the checksum of what it covers
MarkerMatchesAt(f, i, st) ==
  Slice(f, DigitsOff(st, i), DigitsOff(st, i) + 8) = Hex8(ChecksumIEEE(CoveredBefore(f, i, st)))

\* a stamped file had one byte before its marker overwritten, and nothing has
\* been written to it since
Tampered == tamperBack >= 0 /\ ~stamped

\* C4 (tamper detection): VerifyFile on a stamped file of which one byte
\* before the marker was overwritten returns (false, nil).
C4_TamperDetected == (Verified /\ Tampered) => vres = "false"

\* C5 (reader outcome): VerifyFile returns (true, nil) exactly when a
\* well-formed marker line lies in the final window and carries the checksum
\* of the content before it, (false, nil) exactly when such a marker carries
\* another value, and an error when there is no such marker; the only other
\* results are the errors of a file that cannot be opened or read.
C5_ReaderOutcome ==
  Verified =>
    \/ vres \in {"failed to open file", "read error"}
    \/ /\ MarkerStarts(file, style) = {}
       /\ vres \in {"empty file", "no integrity comment found"}
    \/ /\ MarkerStarts(file, style) # {}
       /\ vres = IF MarkerMatchesAt(file, FirstMarker(file, style), style)
                 THEN "true" ELSE "false"

\* VerifyFile has found a marker with a wrong value behind content
C5_Witness ==
  /\ Verified /\ vres = "false"
  /\ MarkerStarts(file, style) # {} /\ FirstMarker(file, style) > 0

\* C6 (error leaves the original untouched): when a step of ProcessFile has
\* failed, ProcessFile returns an error and the target's content, mode and
\* modification time are as before the call.
C6_ErrorLeavesOriginal ==
  (JustReturned /\ failed)
    => (err = "error" /\ file = orig.content /\ mode = orig.mode /\ mtime = orig.mtime)

\* C7 (atomic replacement): while ProcessFile runs and after it has returned,
\* the target holds either the content it had when the call began or, the
\* call having returned nil, every byte the call produced.
C7_AtomicReplace ==
  (pc # "idle" \/ err # "none")
    => (file = orig.content \/ (pc = "idle" /\ err = "nil" /\ file = out))

\* the content before the marker at offset i, then one marker line with crc
ReplacedWith(f, i, st, crc) ==
  {Slice(f, 0, i) \o st.Prefix \o KeyText \o Hex8(crc) \o st.Suffix \o le : le \in {<<LF>>, <<CR, LF>>}}

\* the marker at offset i of f does not carry crc
StaleAt(f, i, st, crc) == Slice(f, DigitsOff(st, i), DigitsOff(st, i) + 8) # Hex8(crc)

\* C8 for the marker at offset i that ends f
StaleReplacedAt(f, i, st, crc) ==
  StaleAt(f, i, st, crc) => (err = "nil" /\ file \in ReplacedWith(f, i, st, crc))

\* C8 (stale marker replaced): for a file whose last line is a well-formed
\* marker with a value other than the checksum of the content before it,
\* ProcessFile returns nil and the file is that content followed by exactly
\* one marker line, which carries the checksum.
C8_StaleMarkerReplaced ==
  \A le \in LineEnds :
    (JustReturned /\ LastLineMarker(orig.content, style, le))
      => StaleReplacedAt(orig.content, Len(orig.content) - MarkerLen(style) - Len(le), style,
                         ChecksumIEEE(StripLE(Slice(orig.content, 0,
                                        Len(orig.content) - MarkerLen(style) - Len(le)))))

\* a file with content before a stale marker has been processed
C8_Witness ==
  /\ JustReturned /\ err = "nil" /\ ~isNoOp
  /\ Len(orig.content) > MarkerLen(style) + 1
  /\ LastLineMarker(orig.content, style, <<LF>>)

\* the marker line of the zero-length input
EmptyMarkerLine(st) == st.Prefix \o KeyText \o [k \in 1..8 |-> 48] \o st.Suffix \o <<LF>>

\* C9 (empty file): ProcessFile on an empty file returns nil and leaves a
\* file that is one marker line with the value 00000000; VerifyFile on an
\* empty file returns an error.
C9_EmptyFile ==
  /\ (JustReturned /\ orig.content = <<>>) => (err = "nil" /\ file = EmptyMarkerLine(style))
  /\ (Verified /\ file = <<>>) => vres \notin {"true", "false"}

\* ProcessFile has stamped an empty file
C9_Witness == JustReturned /\ orig.content = <<>> /\ err = "nil" /\ file # <<>>

\* c, one inserted line ending, and a marker line that carries the checksum a
\* file holding c and that line ending gets
WithInsertedLineEnding(c, st) ==
  {c \o le \o st.Prefix \o KeyText \o Hex8(ChecksumIEEE(StripLE(c \o le))) \o st.Suffix \o le2 :
     le \in {<<LF>>, <<CR, LF>>}, le2 \in {<<LF>>, <<CR, LF>>}}

\* C10 (no trailing newline): for a file without a marker whose content does
\* not end with LF, ProcessFile returns nil and the file is the content, one
\* line ending, and a marker line whose value is the checksum the content
\* followed by that line ending gets.
C10_NoTrailingNewline ==
  (/\ JustReturned /\ orig.content # <<>>
   /\ orig.content[Len(orig.content)] # LF
   /\ MarkerStarts(orig.content, style) = {})
    => (err = "nil" /\ file \in WithInsertedLineEnding(orig.content, style))

(***************************************************************************)
(* Files with one style of line ending                                     *)
(***************************************************************************)
\* longest last line of such a file
MaxLine == 36

\* a first line, empty or "a", and a last line of k 'a', both ended by le,
\* or the last line without a line ending
LEFiles ==
  UNION {{first \o le \o Filler(k) \o trail :
            first \in {<<>>, <<97>>}, k \in 0..MaxLine, trail \in {<<>>, le}} :
         le \in {<<LF>>, <<CR, LF>>}}

\* permission bits of the target: 0644, 0755
Modes == {FileMode, 493}

InitLE ==
  /\ InitCommon
  /\ mode \in Modes
  /\ diskCap = -1
  /\ \E s \in {5, 48} : bufferSize = windowSize(style) + s
  /\ file \in LEFiles

\* ProcessFile and VerifyFile, the file being left alone in between; the
\* os.Chown may fail, every other file operation succeeds
NextLE ==
  \/ PF_Stat \/ PF_Open \/ PF_CreateTemp
  \/ PS_FirstRead \/ PS_Loop \/ PS_Finalize
  \/ PF_NoOp \/ PF_Preserve \/ PF_PreserveChownFail \/ PF_Rename
  \/ V_Open \/ V_FirstRead \/ V_Loop \/ V_Final

SpecLE == InitLE /\ [][NextLE]_vars

\* c holds an LF, and every LF of c follows a CR, every CR of c precedes an LF
CRLFOnly(c) ==
  /\ \E i \in 1..Len(c) : c[i] = LF
  /\ \A i \in 1..Len(c) : c[i] = LF => (i > 1 /\ c[i - 1] = CR)
  /\ \A i \in 1..Len(c) : c[i] = CR => (i < Len(c) /\ c[i + 1] = LF)

\* c holds an LF and no CR
LFOnly(c) ==
  /\ \E i \in 1..Len(c) : c[i] = LF
  /\ \A i \in 1..Len(c) : c[i] # CR

\* f is c, the line ending le when c does not end with one, a marker, and le
StampedWith(f, c, st, le, ins) ==
  /\ Len(f) = Len(c) + Len(ins) + MarkerLen(st) + Len(le)
  /\ Slice(f, 0, Len(c)) = c
  /\ Slice(f, Len(c), Len(c) + Len(ins)) = ins
  /\ MarkerShapeAt(f, Len(c) + Len(ins), st)
  /\ Slice(f, Len(c) + Len(ins) + MarkerLen(st), Len(f)) = le

StampedWithLE(f, c, st, le) ==
  StampedWith(f, c, st, le, IF c[Len(c)] = LF THEN <<>> ELSE le)

\* C11 (line-ending preservation): ProcessFile on an unstamped file in which
\* every line ending is CRLF leaves the content, a CRLF where the content
\* does not end with one, and a marker line ended by CRLF; on a file in which
\* every line ending is LF the same with LF.
C11_LineEndingPreserved ==
  (JustReturned /\ ~fromStamped)
    => /\ CRLFOnly(orig.content)
            => (err = "nil" /\ StampedWithLE(file, orig.content, style, <<CR, LF>>))
       /\ LFOnly(orig.content)
            => (err = "nil" /\ StampedWithLE(file, orig.content, style, <<LF>>))

\* c, one more line ending, and a marker line that carries the checksum of
\* the whole of c
WithBlankLine(c, st) ==
  {c \o le \o st.Prefix \o KeyText \o Hex8(ChecksumIEEE(c)) \o st.Suffix \o le2 :
     le \in {<<LF>>, <<CR, LF>>}, le2 \in {<<LF>>, <<CR, LF>>}}

\* C12 (stamped layout and coverage): for an unstamped file whose content
\* ends with a line ending, ProcessFile returns nil and the file is the
\* content, one additional line ending, and a marker line whose value is the
\* CRC-32 of the whole content, its trailing line ending included.
C12_StampedLayout ==
  (/\ JustReturned /\ ~fromStamped /\ orig.content # <<>>
   /\ orig.content[Len(orig.content)] = LF
   /\ MarkerStarts(orig.content, style) = {})
    => (err = "nil" /\ file \in WithBlankLine(orig.content, style))

\* C13 (attribute preservation): from the start of a ProcessFile call on,
\* the target's permission bits are those it had when the call began, also
\* once the file has been replaced; the temporary file carries them before
\* the rename.
C13_AttributesPreserved ==
  /\ (pc # "idle" \/ err # "none") => mode = orig.mode
  /\ pc = "rename" => (tmpMode = origMode /\ origMode = orig.mode)

\* a file with the bits 0755 has been replaced
C13_Witness ==
  /\ JustReturned /\ err = "nil" /\ ~isNoOp /\ file # orig.content
  /\ orig.mode = 493 /\ mode = 493

\* C14 (no temp-file leak): whenever no ProcessFile call is running, there
\* is no temporary file and both file handles are closed.
C14_NoTempLeak == pc = "idle" => (~tmpExists /\ tmp = <<>> /\ ~srcOpen /\ ~dstOpen)

\* a call has returned an error after it had written to its temporary file
C14_Witness == JustReturned /\ err = "error" /\ out # <<>> /\ ~tmpExists

\* C18 (ownership is best effort): when the os.Chown of a call has failed
\* and no other file operation has, ProcessFile returns nil, the file is
\* replaced by the stamped content and its permission bits are preserved.
C18_ChownBestEffort ==
  /\ chownFailed => pc \in {"rename", "idle"}
  /\ (JustReturned /\ chownFailed)
       => (err = "nil" /\ file = out /\ mtime = orig.mtime + 1 /\ mode = orig.mode)

\* a call whose os.Chown failed has returned
C18_Witness == JustReturned /\ chownFailed /\ err = "nil" /\ file # orig.content

(***************************************************************************)
(* Files that end with a malformed marker                                  *)
(***************************************************************************)
\* hex fields that are not 8 upper-case hex digits: "1234567", "123456789",
\* "1234abcd", "1234567G", ""
MalformedFields ==
  {<<49, 50, 51, 52, 53, 54, 55>>, <<49, 50, 51, 52, 53, 54, 55, 56, 57>>,
   <<49, 50, 51, 52, 97, 98, 99, 100>>, <<49, 50, 51, 52, 53, 54, 55, 71>>, <<>>}

MalformedFiles(st) ==
  {body \o st.Prefix \o KeyText \o field \o st.Suffix \o le :
     body \in {<<>>, <<97, LF>>}, field \in MalformedFields, le \in LineEnds}

InitMal ==
  /\ InitCommon
  /\ mode = FileMode
  /\ diskCap = -1
  /\ \E s \in {5, 48} : bufferSize = windowSize(style) + s
  /\ file \in MalformedFiles(style)

SpecMal == InitMal /\ [][NextLE]_vars

\* f is c, a line ending where c does not end with one, and one marker line
\* that carries the checksum
FreshlyStamped(f, c, st, le) ==
  /\ StampedWithLE(f, c, st, le)
  /\ CarriesChecksumAt(f, Len(f) - MarkerLen(st) - Len(le), st)

\* C15 (malformed marker counts as no marker): VerifyFile on a file whose
\* last line has marker shape with a hex field that is not 8 upper-case hex
\* digits returns an error; ProcessFile on it returns nil and leaves the
\* whole file, malformed line included, followed by one fresh marker line.
C15_MalformedIsNoMarker ==
  /\ (Verified /\ ~stamped) => vres \in {"no integrity comment found", "empty file"}
  /\ (JustReturned /\ ~fromStamped)
       => /\ err = "nil"
          /\ \E le \in {<<LF>>, <<CR, LF>>} : FreshlyStamped(file, orig.content, style, le)

\* ProcessFile has stamped a file that ends with a malformed marker
C15_Witness ==
  /\ JustReturned /\ ~fromStamped /\ err = "nil"
  /\ orig.content \in MalformedFiles(style) /\ Len(file) > Len(orig.content)
(***************************************************************************)
(* The marker text and the extension table by themselves                   *)
(***************************************************************************)
\* the comment styles of the package
CommentStyles ==
  {GoStyle, CStyle, PythonStyle, SQLStyle, HTMLStyle, ShellStyle, RubyStyle, JSStyle}

\* checksum values: zero, small ones that need padding, letters in every
\* digit, the largest
CrcHalves == {0, 10, 4660, 43981, 65535}
CrcSamples == CrcHalves \X CrcHalves

\* the extensions of the documented table, those the switch lists beyond it,
\* and some that neither knows
Extensions ==
  {".go", ".c", ".h", ".cpp", ".java", ".js", ".ts", ".py", ".sql", ".html",
   ".xml", ".sh", ".bash", ".rb", ".css", ".scss", ".sass", ".templ",
   ".hpp", ".cc", ".cxx", ".jsx", ".tsx", ".htm", ".unknown", ".txt", ""}

\* files a ProcessFile run starts from: empty, one line with and without its
\* line ending, CRLF lines longer than a buffer
FnFiles ==
  {<<>>, <<97>>, <<97, LF>>, <<97, CR, LF>> \o Filler(MaxLine) \o <<CR, LF>>}

\* either a ProcessFile/VerifyFile run on a file under one of the styles, or
\* one call of createComment followed by the pattern match, or one call of
\* ConfigForExtension
InitFn ==
  /\ InitLocals
  /\ NoInvocations /\ NoCommand
  /\ mode = FileMode
  /\ diskCap = -1
  /\ fnRes = NoResult
  /\ style \in CommentStyles \cup {CSSStyle, TemplStyle}
  /\ bufferSize = windowSize(style) + 5
  /\ \/ fnArg = NoCall /\ file \in FnFiles
     \/ /\ file = <<>>
        /\ fnArg \in [fn : {"createComment"}, crc : CrcSamples,
                      lineEnding : {<<LF>>, <<CR, LF>>}, ext : {""}]
     \/ /\ file = <<>> /\ style = GoStyle
        /\ fnArg \in [fn : {"ConfigForExtension"}, crc : {<<0, 0>>},
                      lineEnding : {<<>>}, ext : Extensions]

\* comment := w.createComment(crc, lineEnding)
Call_createComment ==
  /\ fnArg.fn = "createComment" /\ fnRes.step = 0
  /\ fnRes' = [fnRes EXCEPT !.step = 1,
                            !.comment = createComment(style, fnArg.crc, fnArg.lineEnding)]
  /\ UNCHANGED <<cfgVars, fsVars, wVars, rVars, hVars, parVars, cmdVars, fnArg>>

\* match := pattern.FindSubmatchIndex(comment); parseCRC(comment[match[2]:match[3]])
Call_FindSubmatchIndex ==
  /\ fnArg.fn = "createComment" /\ fnRes.step = 1
  /\ LET m == FindSubmatchIndex(createCommentPattern(style), fnRes.comment)
     IN fnRes' = [fnRes EXCEPT !.step = 2, !.match = m,
                    !.value = IF m = <<>> THEN [ok |-> FALSE, crc |-> <<0, 0>>]
                              ELSE parseCRC(Slice(fnRes.comment, m[3], m[4]))]
  /\ UNCHANGED <<cfgVars, fsVars, wVars, rVars, hVars, parVars, cmdVars, fnArg>>

\* config := ConfigForExtension(ext)
Call_ConfigForExtension ==
  /\ fnArg.fn = "ConfigForExtension" /\ fnRes.step = 0
  /\ fnRes' = [fnRes EXCEPT !.step = 1, !.config = ConfigForExtension(fnArg.ext)]
  /\ UNCHANGED <<cfgVars, fsVars, wVars, rVars, hVars, parVars, cmdVars, fnArg>>

NextFn ==
  \/ Call_createComment \/ Call_FindSubmatchIndex \/ Call_ConfigForExtension
  \/ NextLE

SpecFn == InitFn /\ [][NextFn]_vars

\* the k-th of the four hex digits of a 16-bit value, upper case
UpperHexChar(h, k) ==
  <<48, 49, 50, 51, 52, 53, 54, 55, 56, 57, 65, 66, 67, 68, 69, 70>>[((h \div (16 ^ (4 - k))) % 16) + 1]

\* the eight upper-case hex digits of a 32-bit value, zero padded
UpperHex8(v) == [k \in 1..8 |-> IF k <= 4 THEN UpperHexChar(v[1], k) ELSE UpperHexChar(v[2], k - 4)]

\* line le is prefix, "FileIntegrity: ", the eight digits of v, suffix, line ending
MarkerLineOf(st, v, le) == st.Prefix \o KeyText \o UpperHex8(v) \o st.Suffix \o le

\* the pattern of st matches the whole of line and extracts v
PatternExtracts(st, line, le, v) ==
  LET m == FindSubmatchIndex(createCommentPattern(st), line)
  IN /\ m = <<0, Len(line), DigitsOff(st, 0), DigitsOff(st, 0) + 8>>
     /\ parseCRC(Slice(line, m[3], m[4])) = [ok |-> TRUE, crc |-> v]

\* C16 (marker format): for each of the comment styles and every checksum
\* value, createComment gives prefix, "FileIntegrity: ", eight zero-padded
\* upper-case hex digits, suffix and the line ending, and the pattern of the
\* style matches that line and extracts the value; after a successful
\* ProcessFile the last line of the file is such a line, ended by LF or CRLF.
C16_MarkerFormat ==
  style \in CommentStyles =>
    /\ (fnArg.fn = "createComment" /\ fnRes.step >= 1)
         => fnRes.comment = MarkerLineOf(style, fnArg.crc, fnArg.lineEnding)
    /\ (fnArg.fn = "createComment" /\ fnRes.step = 2)
         => /\ fnRes.match = <<0, Len(fnRes.comment), DigitsOff(style, 0), DigitsOff(style, 0) + 8>>
            /\ fnRes.value = [ok |-> TRUE, crc |-> fnArg.crc]
    /\ (JustReturned /\ err = "nil")
         => \E le \in {<<LF>>, <<CR, LF>>} :
              LET i == Len(file) - MarkerLen(style) - Len(le)
                  line == Slice(file, i, Len(file))
                  v == parseCRC(Slice(file, DigitsOff(style, i), DigitsOff(style, i) + 8)).crc
              IN /\ i >= 0 /\ (i = 0 \/ file[i] = LF)
                 /\ line = MarkerLineOf(style, v, le)
                 /\ PatternExtracts(style, line, le, v)

\* a value that needs padding and has letters in its digits was rendered
\* under a style with a suffix, and matched
C16_Witness ==
  /\ style = HTMLStyle /\ fnArg.fn = "createComment" /\ fnRes.step = 2
  /\ fnArg.crc = <<10, 43981>> /\ fnArg.lineEnding = <<CR, LF>>
  /\ fnRes.value.ok
\* prefix, the eight digits of v, suffix, line ending: the declaration
\* const FileIntegrity = "ABCD1234"
DeclarationLineOf(st, v, le) == st.Prefix \o UpperHex8(v) \o st.Suffix \o le

\* the last line of f is such a declaration, ended by LF or CRLF
EndsWithDeclaration(f, st) ==
  \E le \in {<<LF>>, <<CR, LF>>} :
    LET i == Len(f) - Len(st.Prefix) - 8 - Len(st.Suffix) - Len(le)
    IN /\ i >= 0 /\ (i = 0 \/ f[i] = LF)
       /\ HasAt(f, i, st.Prefix)
       /\ \A k \in 1..8 : IsUpperHex(f[i + Len(st.Prefix) + k])
       /\ Slice(f, i + Len(st.Prefix) + 8, Len(f)) = st.Suffix \o le

\* C19 (declaration-form marker): under the Templ style, whose prefix holds
\* the key text, the marker is prefix, eight hex digits, suffix and line
\* ending without "FileIntegrity: "; it is the last line ProcessFile leaves,
\* VerifyFile accepts the result and a second ProcessFile leaves it alone.
C19_DeclarationForm ==
  style = TemplStyle =>
    /\ (fnArg.fn = "createComment" /\ fnRes.step >= 1)
         => fnRes.comment = DeclarationLineOf(style, fnArg.crc, fnArg.lineEnding)
    /\ (JustReturned /\ err = "nil") => EndsWithDeclaration(file, style)
    /\ (Verified /\ err = "nil") => vres = "true"
    /\ (JustReturned /\ fromStamped /\ stampInput # <<>>)
         => (err = "nil" /\ file = orig.content /\ mtime = orig.mtime)
\* the documented table of styles by extension
DocumentedExtensions ==
  {".go", ".c", ".h", ".cpp", ".java", ".js", ".ts", ".py", ".sql", ".html",
   ".xml", ".sh", ".bash", ".rb", ".css", ".scss", ".sass", ".templ"}

DocumentedStyle(ext) ==
  IF ext = ".go" THEN GoStyle
  ELSE IF ext \in {".c", ".h", ".cpp", ".java", ".js", ".ts"} THEN CStyle
  ELSE IF ext = ".py" THEN PythonStyle
  ELSE IF ext = ".sql" THEN SQLStyle
  ELSE IF ext \in {".html", ".xml"} THEN HTMLStyle
  ELSE IF ext \in {".sh", ".bash"} THEN ShellStyle
  ELSE IF ext = ".rb" THEN RubyStyle
  ELSE IF ext \in {".css", ".scss", ".sass"} THEN CSSStyle
  ELSE TemplStyle

\* C20 (style by extension): ConfigForExtension returns the style of the
\* documented table for every extension the table lists, and the Go style
\* with a 64 KiB buffer for every other extension.
C20_StyleByExtension ==
  (fnArg.fn = "ConfigForExtension" /\ fnRes.step = 1)
    => IF fnArg.ext \in DocumentedExtensions
       THEN fnRes.config.CommentStyle = DocumentedStyle(fnArg.ext)
       ELSE fnRes.config = [CommentStyle |-> GoStyle, BufferSize |-> 64 * 1024]
(***************************************************************************)
(* Invocations side by side: each ProcessFile or VerifyFile call has its   *)
(* own locals; what they share is the directory                            *)
(***************************************************************************)
\* the locals of processStream at its start
NewStream ==
  [pc |-> "read1", srcPos |-> 0, buffer |-> <<>>, firstRead |-> FALSE, eof |-> FALSE,
   hasher |-> NewIEEE, wbuf |-> <<>>, isNoOp |-> FALSE]

\* processStream returns (noop, nil) after the deferred writer.Flush()
streamReturns(l, W1, noop) ==
  [l |-> [l EXCEPT !.pc = "close", !.isNoOp = noop, !.wbuf = <<>>],
   dst |-> BufioFlush(W1, -1).out]

\* one pass of `for !eof` with the locals l, reading src, writing dst
streamLoop(st, bs, l, src, dst, writeLen) ==
  IF writeLen < 0 THEN [l |-> [l EXCEPT !.pc = "panic"], dst |-> dst]
  ELSE LET chunk == Slice(l.buffer, 0, writeLen)
           W0 == [buf |-> l.wbuf, err |-> FALSE, out |-> dst]
           W1 == IF ~l.firstRead \/ Len(l.buffer) > windowSize(st)
                 THEN BufioWrite(W0, chunk, -1) ELSE W0
           kept == SlideWindow(l.buffer, writeLen, Len(l.buffer))
           r == FileRead(src, l.srcPos, bs - Len(kept))
       IN [l |-> [l EXCEPT !.wbuf = W1.buf, !.hasher = HashWrite(l.hasher, chunk),
                           !.buffer = kept \o r.data, !.srcPos = l.srcPos + Len(r.data),
                           !.eof = r.eof, !.firstRead = FALSE],
           dst |-> W1.out]

\* the first read of processStream
streamFirstRead(st, l, dst, r) ==
  IF Len(r.data) = 0
  THEN streamReturns(l, WriteAll([buf |-> <<>>, err |-> FALSE, out |-> dst],
                                 finalizeEmpty(st, NewIEEE), -1), FALSE)
  ELSE [l |-> [l EXCEPT !.pc = "loop", !.buffer = r.data, !.srcPos = l.srcPos + Len(r.data),
                        !.firstRead = TRUE, !.eof = r.eof],
        dst |-> dst]

\* finalizeWindow at EOF
streamFinalize(l, dst, fin) ==
  streamReturns(l, WriteAll([buf |-> l.wbuf, err |-> FALSE, out |-> dst], fin.writes, -1),
                fin.isNoOp)

\* one step of Writer.processStream: the first read, a pass of the loop, or
\* the finalizeWindow at EOF; every read and write succeeds
processStreamStep(st, bs, l, src, dst) ==
  IF l.pc = "read1" THEN streamFirstRead(st, l, dst, FileRead(src, l.srcPos, bs))
  ELSE IF ~l.eof
       THEN streamLoop(st, bs, l, src, dst, WriteLen(l.firstRead, Len(l.buffer), windowSize(st)))
       ELSE streamFinalize(l, dst, finalizeWindow(createCommentPattern(st), st, l.hasher, l.buffer))

\* the locals of verifyStream at its start
NewVerify ==
  [pc |-> "read1", pos |-> 0, buffer |-> <<>>, first |-> FALSE, eof |-> FALSE,
   hasher |-> NewIEEE, res |-> "none"]

\* one pass of verifyStream's `for !eof`
verifyLoop(bs, l, src, hashLen) ==
  IF hashLen < 0 THEN [l EXCEPT !.pc = "panic"]
  ELSE LET kept == SlideWindow(l.buffer, hashLen, Len(l.buffer))
           r == FileRead(src, l.pos, bs - Len(kept))
       IN [l EXCEPT !.hasher = HashWrite(l.hasher, Slice(l.buffer, 0, hashLen)),
                    !.buffer = kept \o r.data, !.pos = l.pos + Len(r.data),
                    !.eof = r.eof, !.first = FALSE]

\* the first read of verifyStream
verifyFirstRead(l, r) ==
  IF Len(r.data) = 0 THEN [l EXCEPT !.pc = "close", !.res = "empty file"]
  ELSE [l EXCEPT !.pc = "loop", !.buffer = r.data, !.pos = l.pos + Len(r.data),
                 !.first = TRUE, !.eof = r.eof]

\* one step of Reader.verifyStream
verifyStreamStep(st, bs, l, src) ==
  IF l.pc = "read1" THEN verifyFirstRead(l, FileRead(src, l.pos, bs))
  ELSE IF ~l.eof
       THEN verifyLoop(bs, l, src, HashLen(l.first, Len(l.buffer), windowSize(st)))
       ELSE [l EXCEPT !.pc = "close",
                      !.res = verifyWindow(createCommentPattern(st), l.hasher, l.buffer)]

\* names in the directory: the targets, and names os.CreateTemp may pick
TargetNames == {"x.go", "y.go"}
TempNames == {".hashfile_1.tmp", ".hashfile_2.tmp"}
Names == TargetNames \cup TempNames

\* no file under a name
NoFile == [exists |-> FALSE, content |-> <<>>, mode |-> 0, mtime |-> 0]

\* os.CreateTemp that opens whatever name it draws, truncating it
CreateTempMayUse_Any(d, name) == name \in TempNames

\* os.CreateTemp opens with O_CREATE|O_EXCL: it takes a name that no file has
CreateTempMayUse(d, name) == name \in TempNames /\ ~d[name].exists

\* the invocations, and the target of each
Invocations == {1, 2}
TargetOf(p) == IF p = 1 THEN "x.go" ELSE "y.go"

\* what the invocations side by side leave alone
seqVars == <<cfgVars, fsVars, wVars, rVars, hVars, fnVars, cmdVars>>

\* another invocation is between its first and its last step
OtherRuns(p) == \E q \in Invocations \ {p} : inv[q].pc \notin {"start", "done"}

\* invocation p takes a step to pc value to
StepTo(p, to) == [inv[p] EXCEPT !.pc = to, !.overlapped = @ \/ OtherRuns(p)]

\* origInfo, err := os.Stat(filename)
Par_Stat(p) ==
  /\ inv[p].op = "ProcessFile" /\ inv[p].pc = "start"
  /\ inv' = [inv EXCEPT ![p] = [StepTo(p, "open") EXCEPT !.origMode = dir[inv[p].path].mode]]
  /\ UNCHANGED dir
  /\ UNCHANGED seqVars

\* src, err := os.Open(filename)
Par_Open(p) ==
  /\ inv[p].op = "ProcessFile" /\ inv[p].pc = "open"
  /\ inv' = [inv EXCEPT ![p] = StepTo(p, "create")]
  /\ UNCHANGED dir
  /\ UNCHANGED seqVars

\* dst, err := os.CreateTemp(dir, ".hashfile_*.tmp")
Par_CreateTemp(p) ==
  /\ inv[p].op = "ProcessFile" /\ inv[p].pc = "create"
  /\ \E name \in Names :
       /\ CreateTempMayUse(dir, name)
       /\ dir' = [dir EXCEPT ![name] = [exists |-> TRUE, content |-> <<>>,
                                        mode |-> TempMode, mtime |-> 0]]
       /\ inv' = [inv EXCEPT ![p] = [StepTo(p, "stream") EXCEPT !.tmpName = name,
                                                                 !.w = NewStream]]
  /\ UNCHANGED seqVars

\* a step of w.processStream(src, dst)
Par_Stream(p) ==
  /\ inv[p].op = "ProcessFile" /\ inv[p].pc = "stream" /\ inv[p].w.pc \in {"read1", "loop"}
  /\ LET S == processStreamStep(style, bufferSize, inv[p].w,
                                dir[inv[p].path].content, dir[inv[p].tmpName].content)
     IN /\ inv' = [inv EXCEPT ![p] = [StepTo(p, "stream") EXCEPT !.w = S.l]]
        /\ dir' = [dir EXCEPT ![inv[p].tmpName].content = S.dst]
  /\ UNCHANGED seqVars

\* isNoOp: os.Remove(tmpName); return nil
Par_NoOp(p) ==
  /\ inv[p].op = "ProcessFile" /\ inv[p].pc = "stream" /\ inv[p].w.pc = "close"
  /\ inv[p].w.isNoOp
  /\ dir' = [dir EXCEPT ![inv[p].tmpName] = NoFile]
  /\ inv' = [inv EXCEPT ![p] = [StepTo(p, "done") EXCEPT !.ret = "nil", !.w = NewStream]]
  /\ UNCHANGED seqVars

\* preserveAttributes(tmpName, origInfo)
Par_Preserve(p) ==
  /\ inv[p].op = "ProcessFile" /\ inv[p].pc = "stream" /\ inv[p].w.pc = "close"
  /\ ~inv[p].w.isNoOp
  /\ dir' = [dir EXCEPT ![inv[p].tmpName].mode = inv[p].origMode]
  /\ inv' = [inv EXCEPT ![p] = StepTo(p, "rename")]
  /\ UNCHANGED seqVars

\* os.Rename(tmpName, filename); return nil
Par_Rename(p) ==
  /\ inv[p].op = "ProcessFile" /\ inv[p].pc = "rename"
  /\ dir' = [dir EXCEPT ![inv[p].path] = [dir[inv[p].tmpName] EXCEPT
                                            !.mtime = dir[inv[p].path].mtime + 1],
                        ![inv[p].tmpName] = NoFile]
  /\ inv' = [inv EXCEPT ![p] = [StepTo(p, "done") EXCEPT !.ret = "nil", !.w = NewStream]]
  /\ UNCHANGED seqVars

\* file, err := os.Open(filename) of VerifyFile
Par_VOpen(p) ==
  /\ inv[p].op = "VerifyFile" /\ inv[p].pc = "start"
  /\ inv' = [inv EXCEPT ![p] = [StepTo(p, "stream") EXCEPT !.v = NewVerify]]
  /\ UNCHANGED dir
  /\ UNCHANGED seqVars

\* a step of r.verifyStream(file)
Par_VStream(p) ==
  /\ inv[p].op = "VerifyFile" /\ inv[p].pc = "stream" /\ inv[p].v.pc \in {"read1", "loop"}
  /\ inv' = [inv EXCEPT ![p] = [StepTo(p, "stream") EXCEPT
               !.v = verifyStreamStep(style, bufferSize, inv[p].v, dir[inv[p].path].content)]]
  /\ UNCHANGED dir
  /\ UNCHANGED seqVars

\* VerifyFile returns
Par_VReturn(p) ==
  /\ inv[p].op = "VerifyFile" /\ inv[p].pc = "stream" /\ inv[p].v.pc = "close"
  /\ inv' = [inv EXCEPT ![p] = [StepTo(p, "done") EXCEPT !.ret = inv[p].v.res, !.v = NewVerify]]
  /\ UNCHANGED dir
  /\ UNCHANGED seqVars

\* contents of a target: empty, a line, that line with its marker, with a
\* stale marker, and lines longer than a buffer
ParFiles(st) ==
  {<<>>, <<97, LF>>,
   <<97, LF>> \o createComment(st, ChecksumIEEE(<<97>>), <<LF>>),
   <<97, LF>> \o createComment(st, <<0, 0>>, <<LF>>),
   <<97, LF>> \o Filler(MaxLine) \o <<CR, LF>>}

\* two invocations, each a ProcessFile or a VerifyFile, on two files of one
\* directory
InitPar ==
  /\ InitLocals
  /\ NoCommand
  /\ fnArg = NoCall /\ fnRes = NoResult
  /\ style \in Styles
  /\ mode = FileMode /\ diskCap = -1 /\ file = <<>>
  /\ bufferSize = windowSize(style) + 5
  /\ \E cx \in ParFiles(style), cy \in ParFiles(style) :
       dir = [n \in Names |->
                IF n = "x.go" THEN [exists |-> TRUE, content |-> cx, mode |-> FileMode, mtime |-> 0]
                ELSE IF n = "y.go" THEN [exists |-> TRUE, content |-> cy, mode |-> 493, mtime |-> 0]
                ELSE NoFile]
  /\ \E ops \in [Invocations -> {"ProcessFile", "VerifyFile"}] :
       inv = [p \in Invocations |->
                [op |-> ops[p], path |-> TargetOf(p), pc |-> "start", origMode |-> 0,
                 tmpName |-> "", w |-> NewStream, v |-> NewVerify, ret |-> "none",
                 orig |-> dir[TargetOf(p)], overlapped |-> FALSE]]

\* a step of one of the invocations
NextPar ==
  \/ \E p \in Invocations : Par_Stat(p)
  \/ \E p \in Invocations : Par_Open(p)
  \/ \E p \in Invocations : Par_CreateTemp(p)
  \/ \E p \in Invocations : Par_Stream(p)
  \/ \E p \in Invocations : Par_NoOp(p)
  \/ \E p \in Invocations : Par_Preserve(p)
  \/ \E p \in Invocations : Par_Rename(p)
  \/ \E p \in Invocations : Par_VOpen(p)
  \/ \E p \in Invocations : Par_VStream(p)
  \/ \E p \in Invocations : Par_VReturn(p)

SpecPar == InitPar /\ [][NextPar]_vars

RECURSIVE RunStream(_, _, _, _)
\* processStream run to its return on a file nobody else touches
RunStream(st, bs, S, src) ==
  IF S.l.pc \in {"close", "panic"} THEN S
  ELSE RunStream(st, bs, processStreamStep(st, bs, S.l, src, S.dst), src)

RECURSIVE RunVerify(_, _, _, _)
\* verifyStream run to its return on a file nobody else touches
RunVerify(st, bs, l, src) ==
  IF l.pc \in {"close", "panic"} THEN l
  ELSE RunVerify(st, bs, verifyStreamStep(st, bs, l, src), src)

\* result and final file of ProcessFile run alone on f
ProcessFileAlone(st, bs, f) ==
  LET S == RunStream(st, bs, [l |-> NewStream, dst |-> <<>>], f.content)
  IN [ret |-> "nil",
      file |-> IF S.l.isNoOp THEN f
               ELSE [exists |-> TRUE, content |-> S.dst, mode |-> f.mode, mtime |-> f.mtime + 1]]

\* result and final file of VerifyFile run alone on f
VerifyFileAlone(st, bs, f) ==
  [ret |-> RunVerify(st, bs, NewVerify, f.content).res, file |-> f]

\* invocation p holds a temporary file
HoldsTemp(p) == inv[p].op = "ProcessFile" /\ inv[p].pc \in {"stream", "rename"}

\* C17 (independent concurrent invocations): ProcessFile and VerifyFile
\* invocations that run side by side on distinct files of one directory
\* never hold the same temporary file; each leaves the other's target alone,
\* and each returns what it returns when run alone and leaves its target as
\* it does when run alone; when all have returned no temporary file is left.
C17_IndependentInvocations ==
  /\ \A p \in Invocations, q \in Invocations :
       (p # q /\ HoldsTemp(p) /\ HoldsTemp(q)) => inv[p].tmpName # inv[q].tmpName
  /\ \A p \in Invocations :
       /\ inv[p].pc = "start" => dir[inv[p].path] = inv[p].orig
       /\ inv[p].pc = "done"
            => LET alone == IF inv[p].op = "ProcessFile"
                            THEN ProcessFileAlone(style, bufferSize, inv[p].orig)
                            ELSE VerifyFileAlone(style, bufferSize, inv[p].orig)
               IN inv[p].ret = alone.ret /\ dir[inv[p].path] = alone.file
  /\ (\A p \in Invocations : inv[p].pc = "done") => \A n \in TempNames : ~dir[n].exists

\* two ProcessFile invocations whose steps interleaved have both replaced
\* their targets
C17_Witness ==
  \A p \in Invocations :
    /\ inv[p].op = "ProcessFile" /\ inv[p].pc = "done" /\ inv[p].overlapped
    /\ dir[inv[p].path].content # inv[p].orig.content
(***************************************************************************)
(* cmd/hashfile: the verify command                                        *)
(***************************************************************************)
\* most file arguments on a command line
MaxArgs == 2

\* names in the working directory: regular files that may exist, and a
\* directory
CliFiles == {"x.go", "y.go", "z.py"}
CliDirs == {"sub"}

\* file arguments: plain names (one of a file that does not exist), glob
\* patterns, and a malformed pattern
CliPatterns == {"x.go", "z.py", "missing.go", "*.go", "*", "["}

\* containsWildcard: the argument has one of * ? [
containsWildcard(pattern) == pattern \in {"*.go", "*", "["}

\* filepath.Ext of the names above
Ext(name) ==
  IF name \in {"x.go", "y.go", "missing.go"} THEN ".go"
  ELSE IF name = "z.py" THEN ".py"
  ELSE ""

\* filepath.Glob: the names in d that match, in lexical order; ok is FALSE
\* for a malformed pattern
Glob(pattern, d) ==
  IF pattern = "[" THEN [ok |-> FALSE, matches |-> <<>>]
  ELSE [ok |-> TRUE,
        matches |-> SelectSeq(IF pattern = "*.go" THEN <<"x.go", "y.go">>
                              ELSE <<"sub", "x.go", "y.go", "z.py">>,
                              LAMBDA n : n \in CliDirs \/ d[n].exists)]

\* s without the names already in seen, each name once
RECURSIVE AppendUnseen(_, _)
AppendUnseen(files, s) ==
  IF s = <<>> THEN files
  ELSE AppendUnseen(IF \E k \in 1..Len(files) : files[k] = Head(s)
                    THEN files ELSE Append(files, Head(s)),
                    Tail(s))

\* expandFiles: plain arguments as they are, glob patterns expanded to the
\* matches that are not directories, every name once, in order
RECURSIVE expandFiles(_, _, _)
expandFiles(patterns, d, files) ==
  IF patterns = <<>> THEN [ok |-> TRUE, files |-> files]
  ELSE IF ~containsWildcard(Head(patterns))
       THEN expandFiles(Tail(patterns), d, AppendUnseen(files, <<Head(patterns)>>))
       ELSE LET g == Glob(Head(patterns), d)
            IN IF ~g.ok THEN [ok |-> FALSE, files |-> <<>>]
               ELSE expandFiles(Tail(patterns), d,
                                AppendUnseen(files, SelectSeq(g.matches, LAMBDA n : n \notin CliDirs)))

\* getConfigForStyle for the values of -style used here
getConfigForStyle(styleFlag) ==
  [DefaultConfig EXCEPT !.CommentStyle =
     IF styleFlag = "go" THEN GoStyle
     ELSE IF styleFlag \in {"python", "py"} THEN PythonStyle
     ELSE @]

\* getConfig: the -style flag, else the style of the extension
getConfig(filename, styleFlag) ==
  IF styleFlag # "" THEN getConfigForStyle(styleFlag)
  ELSE ConfigForExtension(Ext(filename))

\* reader.VerifyFile(file) in the directory d: "true", "false" or its error
CliVerifyFile(config, d, name) ==
  IF name \in CliDirs THEN "read error"
  ELSE IF name \notin CliFiles \/ ~d[name].exists THEN "failed to open file"
  ELSE VerifyFileAlone(config.CommentStyle, config.BufferSize, d[name]).ret

\* runVerify returns 1 only when a file is invalid
verifyExitCode_InvalidOnly(errors, invalid) == IF Len(invalid) > 0 THEN 1 ELSE 0

\* runVerify's return value after the loop
verifyExitCode(errors, invalid) == IF Len(errors) > 0 \/ Len(invalid) > 0 THEN 1 ELSE 0

\* what a run of the command leaves alone in the model
cliFrame == <<cfgVars, fsVars, wVars, rVars, hVars, fnVars, parVars, rd>>

\* fs.Parse(args); files := fs.Args(); no files: return 1
Cli_Parse ==
  /\ cli.pc = "parse"
  /\ cli' = IF Len(cli.patterns) = 0
            THEN [cli EXCEPT !.pc = "exit", !.code = 1]
            ELSE [cli EXCEPT !.pc = "expand"]
  /\ UNCHANGED cliFrame

\* allFiles, err := expandFiles(files); err: return 1
Cli_Expand ==
  /\ cli.pc = "expand"
  /\ LET e == expandFiles(cli.patterns, dir, <<>>)
     IN cli' = IF e.ok THEN [cli EXCEPT !.pc = "loop", !.allFiles = e.files, !.resolved = TRUE]
               ELSE [cli EXCEPT !.pc = "exit", !.code = 1]
  /\ UNCHANGED cliFrame

\* one pass of `for _, file := range allFiles`
Cli_Verify ==
  /\ cli.pc = "loop" /\ cli.i <= Len(cli.allFiles)
  /\ LET f == cli.allFiles[cli.i]
         res == CliVerifyFile(getConfig(f, cli.styleFlag), dir, f)
     IN cli' = [cli EXCEPT !.i = @ + 1,
                           !.visited = Append(@, f),
                           !.errors = IF res \notin {"true", "false"} THEN Append(@, f) ELSE @,
                           !.invalid = IF res = "false" THEN Append(@, f) ELSE @,
                           !.validCount = IF res = "true" THEN @ + 1 ELSE @]
  /\ UNCHANGED cliFrame

\* the report and the return after the loop
Cli_Report ==
  /\ cli.pc = "loop" /\ cli.i > Len(cli.allFiles)
  /\ cli' = [cli EXCEPT !.pc = "exit", !.code = verifyExitCode(cli.errors, cli.invalid)]
  /\ UNCHANGED cliFrame
\* a regular file with content c
RegularFile(c) == [exists |-> TRUE, content |-> c, mode |-> FileMode, mtime |-> 0]

\* a line with its up-to-date marker, with a stale marker, without marker
ValidFile(st) == RegularFile(<<97, LF>> \o createComment(st, ChecksumIEEE(<<97>>), <<LF>>))
StaleFile(st) == RegularFile(<<97, LF>> \o createComment(st, <<0, 0>>, <<LF>>))
PlainFile == RegularFile(<<97, LF>>)

\* `hashfile verify [-style=..] args` in a directory whose files are valid,
\* stale, unmarked or missing
InitCli ==
  /\ InitLocals
  /\ fnArg = NoCall /\ fnRes = NoResult
  /\ style = GoStyle /\ bufferSize = DefaultConfig.BufferSize
  /\ mode = FileMode /\ diskCap = -1 /\ file = <<>>
  /\ inv = <<>> /\ rd = <<>>
  /\ \E fx \in {NoFile, ValidFile(GoStyle), StaleFile(GoStyle), PlainFile},
        fy \in {ValidFile(GoStyle), StaleFile(GoStyle)},
        fz \in {ValidFile(PythonStyle), PlainFile} :
       dir = [n \in CliFiles |-> IF n = "x.go" THEN fx ELSE IF n = "y.go" THEN fy ELSE fz]
  /\ \E k \in 0..MaxArgs, flag \in {"", "python"} :
       \E args \in [1..k -> CliPatterns] :
         cli = [pc |-> "parse", styleFlag |-> flag, patterns |-> args, allFiles |-> <<>>,
                resolved |-> FALSE, i |-> 1, errors |-> <<>>, invalid |-> <<>>,
                validCount |-> 0, visited |-> <<>>, code |-> -1]

NextCli == Cli_Parse \/ Cli_Expand \/ Cli_Verify \/ Cli_Report

SpecCli == InitCli /\ [][NextCli]_vars

\* f verifies valid: its last line is a marker of the style in force that
\* carries the checksum
VerifiesValid(f, flag) ==
  /\ f \in CliFiles /\ dir[f].exists
  /\ UpToDate(dir[f].content,
              IF flag = "python" \/ f = "z.py" THEN PythonStyle ELSE GoStyle, <<LF>>)

\* C21 (verify exit code): once the file arguments are resolved, runVerify
\* passes every resolved file to VerifyFile once, in order, whatever the
\* earlier ones gave; the valid, invalid and error counts sum to the number
\* of files visited; the exit code is 0 exactly when every resolved file
\* verified valid, and 1 otherwise.
C21_VerifyExitCode ==
  cli.resolved =>
    /\ cli.visited = SubSeq(cli.allFiles, 1, cli.i - 1)
    /\ \A j, k \in 1..Len(cli.allFiles) : cli.allFiles[j] = cli.allFiles[k] => j = k
    /\ cli.validCount + Len(cli.invalid) + Len(cli.errors) = Len(cli.visited)
    /\ cli.pc = "exit"
         => /\ cli.visited = cli.allFiles
            /\ cli.code \in {0, 1}
            /\ cli.code = 0 <=> \A k \in 1..Len(cli.allFiles) :
                                  VerifiesValid(cli.allFiles[k], cli.styleFlag)

\* the first file gave an error, a later one was still verified and is
\* valid, and the exit code is 1
C21_Witness ==
  /\ cli.pc = "exit" /\ cli.resolved /\ cli.code = 1
  /\ Len(cli.allFiles) >= 2
  /\ Len(cli.errors) >= 1 /\ cli.errors[1] = cli.allFiles[1]
  /\ cli.validCount >= 1
\* C22 (sliding-window invariant): while processStream is in its loop, the
\* bytes handed to the writer so far followed by the window buffer[0:n] are
\* the bytes read so far, the hasher holds the checksum of exactly the bytes
\* handed to the writer, and those bytes are what the temporary file and
\* the bufio buffer hold; while verifyStream is in its loop, the window is
\* the last bytes read and the hasher holds the checksum of the bytes read
\* before it.
C22_SlidingWindow ==
  /\ pc = "loop"
       => /\ out \o buffer = Slice(file, 0, srcPos)
          /\ hasher = HashWrite(NewIEEE, out)
          /\ tmp \o wbuf = out
  /\ rpc = "loop"
       => /\ Len(rbuffer) <= rpos
          /\ rbuffer = Slice(file, rpos - Len(rbuffer), rpos)
          /\ rhasher = HashWrite(NewIEEE, Slice(file, 0, rpos - Len(rbuffer)))

\* the writer is in at least its third pass over a file longer than the
\* buffer: bytes were written in two passes and the window has slid twice
C22_Witness ==
  /\ pc = "loop" /\ ~firstRead /\ ~eof
  /\ Len(out) > bufferSize - windowSize(style)
  /\ srcPos > bufferSize
\* the window size as stated: prefix, 15 for "FileIntegrity: ", 8 digits,
\* suffix, 2 for the marker's line ending, 2 for the line ending before it
StatedWindowSize(st) == Len(st.Prefix) + 15 + 8 + Len(st.Suffix) + 2 + 2

\* length of the line ending that stands in f just before offset i
LineEndingBefore(f, i) ==
  IF i >= 1 /\ f[i] = LF THEN (IF i >= 2 /\ f[i - 1] = CR THEN 2 ELSE 1) ELSE 0

\* the final window win of f holds at least the last min(Len(f), windowSize)
\* bytes of f, and with them a marker that is the last line of f and the
\* line ending before it
WindowCoversMarker(f, win, st) ==
  /\ Len(win) <= Len(f)
  /\ win = Slice(f, Len(f) - Len(win), Len(f))
  /\ Len(win) >= (IF Len(f) < StatedWindowSize(st) THEN Len(f) ELSE StatedWindowSize(st))
  /\ \A le \in LineEnds :
       LastLineMarker(f, st, le)
         => LET i == Len(f) - MarkerLen(st) - Len(le)
            IN i - LineEndingBefore(f, i) >= Len(f) - Len(win)

\* C23 (final window covers the marker): at end of stream, in processStream
\* and in verifyStream, the window holds at least the last min(fileSize,
\* windowSize) bytes of the file, so a marker that is the file's last line,
\* ended by LF, CRLF or nothing, lies inside it together with the line
\* ending before it.
C23_FinalWindowCoversMarker ==
  /\ (pc = "loop" /\ eof) => WindowCoversMarker(file, buffer, style)
  /\ (rpc = "loop" /\ reof) => WindowCoversMarker(file, rbuffer, style)

\* the writer is at end of stream of a file longer than its buffer whose
\* last line is a marker ended by CRLF with a CRLF before it
C23_Witness ==
  /\ pc = "loop" /\ eof
  /\ Len(file) > bufferSize
  /\ LastLineMarker(file, style, <<CR, LF>>)
  /\ LineEndingBefore(file, Len(file) - MarkerLen(style) - 2) = 2
\* files around the size of a window: empty, a line, and lines of up to
\* MaxLine bytes and more
BufFiles ==
  {<<>>, <<97, LF>>} \cup {Filler(k) \o <<LF>> : k \in {MaxLine - 7, MaxLine, MaxLine + 9}}

\* a buffer of exactly windowSize bytes, of one more, of some more
InitBuf ==
  /\ InitCommon
  /\ mode = FileMode
  /\ diskCap = -1
  /\ \E s \in {0, 1, 5} : bufferSize = windowSize(style) + s
  /\ file \in BufFiles

\* what one pass of processStream's loop does to the position in the source:
\* the part of PS_Loop that decides whether the loop comes nearer to its end
PS_LoopAdvance ==
  /\ pc = "loop" /\ ~eof
  /\ LET writeLen == WriteLen(firstRead, Len(buffer), windowSize(style))
     IN IF writeLen < 0
        THEN pc' = "panic" /\ UNCHANGED <<srcPos, eof>>
        ELSE LET r == FileRead(file, srcPos, bufferSize - (Len(buffer) - writeLen))
             IN pc' = pc /\ srcPos' = srcPos + Len(r.data) /\ eof' = r.eof

\* the loop of processStream is left at EOF
PS_LoopExit == pc = "loop" /\ eof /\ pc' \in {"close", "idle"}

\* what one pass of verifyStream's loop does to the position in the source
V_LoopAdvance ==
  /\ rpc = "loop" /\ ~reof
  /\ LET hashLen == HashLen(rfirst, Len(rbuffer), windowSize(style))
     IN IF hashLen < 0
        THEN rpc' = "panic" /\ UNCHANGED <<rpos, reof>>
        ELSE LET r == FileRead(file, rpos, bufferSize - (Len(rbuffer) - hashLen))
             IN rpc' = rpc /\ rpos' = rpos + Len(r.data) /\ reof' = r.eof

\* the loop of verifyStream is left at EOF
V_LoopExit == rpc = "loop" /\ reof /\ rpc' = "idle"

\* a call runs on: a pass of a loop that can read further is made, and a
\* loop at EOF is left. A pass that reads nothing and is not at EOF changes
\* nothing, so that the loop may go round for ever.
Fairness ==
  /\ WF_<<pc, srcPos, eof>>(PS_LoopAdvance)
  /\ WF_pc(PS_LoopExit)
  /\ WF_<<rpc, rpos, reof>>(V_LoopAdvance)
  /\ WF_rpc(V_LoopExit)

SpecBuf == InitBuf /\ [][NextLE]_vars /\ Fairness

\* the passes of the two loops move the position as PS_LoopAdvance and
\* V_LoopAdvance say
LoopsAdvance ==
  /\ [][pc = "loop" /\ pc' = "loop" => PS_LoopAdvance]_vars
  /\ [][rpc = "loop" /\ rpc' = "loop" => V_LoopAdvance]_vars

\* C24 (termination within the fixed buffer): for every BufferSize >=
\* windowSize the loops of processStream and verifyStream never slice
\* outside the buffer, never hold more than BufferSize bytes, and come to
\* their end.
C24_Termination ==
  /\ [](pc # "panic" /\ rpc # "panic")
  /\ [](Len(buffer) <= bufferSize /\ Len(rbuffer) <= bufferSize)
  /\ (pc = "loop") ~> (pc # "loop")
  /\ (rpc = "loop") ~> (rpc # "loop")

\* the same for every BufferSize > windowSize
C24_TerminationAbove ==
  /\ [](bufferSize > windowSize(style) => pc # "panic" /\ rpc # "panic")
  /\ [](Len(buffer) <= bufferSize /\ Len(rbuffer) <= bufferSize)
  /\ (bufferSize > windowSize(style) /\ pc = "loop") ~> (pc # "loop")
  /\ (bufferSize > windowSize(style) /\ rpc = "loop") ~> (rpc # "loop")

(***************************************************************************)
(* Files in which a marker line is not the last line                       *)
(***************************************************************************)
\* what stands before the marker: nothing, a line, a line longer than the
\* window, ended by LF, by CRLF or by nothing
MidHeads ==
  {<<>>, <<97, LF>>, <<97, CR, LF>>,
   Filler(MaxLine), Filler(MaxLine) \o <<LF>>, Filler(MaxLine) \o <<CR, LF>>}

\* what follows the marker: nothing, its line ending, and further lines of
\* 0..2 bytes, so that the marker starts inside the final window, at its
\* first byte, or one byte after it
MidRests(st, le) ==
  {<<>>, le, le \o <<97>>, le \o le, le \o <<97>> \o le, le \o <<97, 98>> \o le,
   le \o createComment(st, <<4660, 22136>>, le)}

\* a marker that carries the checksum of head, or 12345678
MidMarkers(st, head) ==
  {createComment(st, ChecksumIEEE(StripLE(head)), <<>>),
   createComment(st, <<4660, 22136>>, <<>>)}

MidFiles(st) ==
  UNION {{head \o m \o rest : m \in MidMarkers(st, head), rest \in MidRests(st, le)} :
         head \in MidHeads, le \in {<<LF>>, <<CR, LF>>}}

InitMid ==
  /\ InitCommon
  /\ mode = FileMode
  /\ diskCap = -1
  /\ \E s \in {5, 48} : bufferSize = windowSize(style) + s
  /\ file \in MidFiles(style)

SpecMid == InitMid /\ [][NextLE]_vars

\* the marker found in the final window win of file f starts a line of f,
\* no marker line follows it in the window, and nothing follows it in f
\* but its own line ending
RecognisedIsLastLine(f, win, st) ==
  LET match == FindSubmatchIndex(createCommentPattern(st), win)
      base == Len(f) - Len(win)
  IN match # <<>> =>
       /\ base + match[1] = 0 \/ f[base + match[1]] = LF
       /\ \A i \in (match[1] + 1)..Len(win) : ~MatchesAt(createCommentPattern(st), win, i)
       /\ match[2] = Len(win)

\* C25 (the recognised marker is the file's last line): the marker that
\* finalizeWindow and verifyWindow find in the final window is the last
\* marker line of the window, starts at a line start of the file, and is
\* followed by nothing but its own line ending.
C25_RecognisedIsLastLine ==
  /\ (pc = "loop" /\ eof) => RecognisedIsLastLine(file, buffer, style)
  /\ (rpc = "loop" /\ reof) => RecognisedIsLastLine(file, rbuffer, style)

\* offset in f of the marker found in the final window win, -1 without one
RecognisedAt(f, win, st) ==
  LET match == FindSubmatchIndex(createCommentPattern(st), win)
  IN IF match = <<>> THEN -1 ELSE Len(f) - Len(win) + match[1]

\* finalizeWindow over hasher h and window win, the bytes written before
\* being written: the checksum covers the bytes before the marker less one
\* line ending, and the output repeats these bytes with their line ending
WriterStripsOneLineEnding(f, win, st, h, written) ==
  LET i == RecognisedAt(f, win, st)
      fin == finalizeWindow(createCommentPattern(st), st, h, win)
      before == Slice(f, 0, i)
  IN i # -1 =>
       /\ fin.crc = ChecksumIEEE(StripLE(before))
       /\ (~fin.isNoOp /\ Len(before) > 0 /\ before[Len(before)] = LF) =>
            written \o Concat(Slice(fin.writes, 0, Len(fin.writes) - 1)) = before

\* verifyWindow over hasher h and window win answers whether the marker
\* carries the checksum of the bytes before it less one line ending
ReaderStripsOneLineEnding(f, win, st, h) ==
  LET i == RecognisedAt(f, win, st)
  IN i # -1 =>
       (verifyWindow(createCommentPattern(st), h, win) = "true") = CarriesChecksumAt(f, i, st)

\* C26 (line ending before the marker): where a marker is recognised, the
\* checksum of Writer and Reader covers the bytes before the marker less
\* exactly one trailing LF or CRLF, wherever the window begins, and the
\* Writer's output holds that line ending once.
C26_OneLineEndingStripped ==
  /\ (pc = "loop" /\ eof) => WriterStripsOneLineEnding(file, buffer, style, hasher, out)
  /\ (rpc = "loop" /\ reof) => ReaderStripsOneLineEnding(file, rbuffer, style, rhasher)

\* c without its last line when that line is a marker line
WithoutTrailingMarker(c, st) ==
  IF \E le \in LineEnds : LastLineMarker(c, st, le)
  THEN LET le == CHOOSE l \in LineEnds : LastLineMarker(c, st, l)
       IN Slice(c, 0, Len(c) - MarkerLen(st) - Len(le))
  ELSE c

\* f is kept, at most one line ending, and one marker line
KeptThenMarker(f, kept, st) ==
  \E ins \in LineEnds, le \in {<<LF>>, <<CR, LF>>} :
    /\ Len(f) = Len(kept) + Len(ins) + MarkerLen(st) + Len(le)
    /\ Slice(f, 0, Len(kept)) = kept
    /\ Slice(f, Len(kept), Len(kept) + Len(ins)) = ins
    /\ MarkerShapeAt(f, Len(kept) + Len(ins), st)
    /\ Slice(f, Len(f) - Len(le), Len(f)) = le

\* C27 (content preservation): after a successful ProcessFile that replaced
\* the file, the file is the input without its trailing marker line,
\* followed by at most one inserted line ending and the new marker line;
\* after a no-op it is the input.
C27_ContentPreserved ==
  (JustReturned /\ err = "nil") =>
     IF isNoOp THEN file = orig.content
     ELSE KeptThenMarker(file, WithoutTrailingMarker(orig.content, style), style)

\* the checksum verifyWindow calculates over hasher h and window win with
\* the match in it
readerCRC(h, win, match) ==
  Sum32(HashWrite(h, stripTrailingNewline(Slice(win, 0, match[1]))))

\* the Writer at EOF with window win and hasher h, against the Reader run on
\* the same file f: the same window and hasher, the same match, the same
\* calculated checksum, and no-op exactly when the Reader answers true
WriterAgreesWithReader(f, st, bs, win, h) ==
  LET pattern == createCommentPattern(st)
      fin == finalizeWindow(pattern, st, h, win)
      v == RunVerify(st, bs, NewVerify, f)
      match == FindSubmatchIndex(pattern, v.buffer)
  IN /\ v.pc = "close"
     /\ v.buffer = win /\ v.hasher = h
     /\ (fin.start = -1) = (v.res = "no integrity comment found")
     /\ fin.start # -1 => /\ fin.start = match[1]
                          /\ fin.crc = readerCRC(v.hasher, v.buffer, match)
                          /\ v.res \in {"true", "false"}
     /\ fin.isNoOp = (v.res = "true")

\* C28 (Writer and Reader agree): on every non-empty file ProcessFile
\* decides no-op exactly when VerifyFile returns (true, nil); both find the
\* same marker at the same offset and calculate the same checksum.
C28_WriterReaderAgree ==
  (pc = "loop" /\ eof) => WriterAgreesWithReader(file, style, bufferSize, buffer, hasher)

\* the Writer is about to decide no-op on a file read in several pieces
C28_Witness ==
  /\ pc = "loop" /\ eof
  /\ Len(file) > bufferSize
  /\ finalizeWindow(createCommentPattern(style), style, hasher, buffer).isNoOp
  /\ RunVerify(style, bufferSize, NewVerify, file).res = "true"

\* buffer sizes above the window: by one byte, by a few, by more than a file
OtherBufferSizes(st) == {windowSize(st) + d : d \in {1, 2, 7, 100}}

\* processStream with a buffer of bs bytes decides and writes what the call
\* that has returned decided and wrote
SameAsWithBuffer(st, bs, input, noop, written) ==
  LET S == RunStream(st, bs, [l |-> NewStream, dst |-> <<>>], input)
  IN S.l.pc = "close" /\ S.l.isNoOp = noop /\ S.dst = written

\* what VerifyFile answers on content, apart from failures of the file system
VerifyAnswers == {"true", "false", "empty file", "no integrity comment found",
                  "invalid CRC format"}

\* C29 (buffer-size independence): the no-op decision and the bytes written
\* by ProcessFile, and the result of VerifyFile, are those of every other
\* BufferSize greater than windowSize.
C29_BufferSizeIndependent ==
  /\ (JustReturned /\ err = "nil") =>
       \A bs \in OtherBufferSizes(style) :
         SameAsWithBuffer(style, bs, orig.content, isNoOp, out)
  /\ (Verified /\ vres \in VerifyAnswers) =>
       \A bs \in OtherBufferSizes(style) :
         RunVerify(style, bs, NewVerify, file).res = vres

\* a ProcessFile that read its file in several pieces has replaced the
\* trailing marker line, and the buffers compared are shorter than the file,
\* as long as the file, and longer
C29_Witness ==
  /\ JustReturned /\ err = "nil" /\ ~isNoOp
  /\ Len(orig.content) > bufferSize
  /\ WithoutTrailingMarker(orig.content, style) # orig.content
  /\ \E bs \in OtherBufferSizes(style) : bs < Len(orig.content)
  /\ \E bs \in OtherBufferSizes(style) : bs > Len(orig.content)

(***************************************************************************)
(* processStream(src io.Reader, dst) and verifyStream(src io.Reader) on a  *)
(* source that splits its bytes across reads as it likes                   *)
(***************************************************************************)
\* lengths a read asked for up to m bytes may return
ChunkLens(m) == {k \in {1, 3, m - 1, m} : k >= 1 /\ k <= m}

\* what src.Read(b) with len(b) = space may return at offset pos of content:
\* 1..space of the bytes left, io.EOF with the last of them or, once none is
\* left, (0, io.EOF)
ReadOutcomes(content, pos, space) ==
  LET left == Len(content) - pos
      m == IF left < space THEN left ELSE space
  IN IF left = 0 THEN {[data |-> <<>>, eof |-> TRUE]}
     ELSE {o \in {[data |-> Slice(content, pos, pos + k), eof |-> e] :
                    k \in ChunkLens(m), e \in BOOLEAN} :
             o.eof => Len(o.data) = left}

\* one pass of processStream's `for !eof`, r being what src.Read returns
streamLoopRead(st, l, dst, writeLen, r) ==
  LET chunk == Slice(l.buffer, 0, writeLen)
      W0 == [buf |-> l.wbuf, err |-> FALSE, out |-> dst]
      W1 == IF ~l.firstRead \/ Len(l.buffer) > windowSize(st)
            THEN BufioWrite(W0, chunk, -1) ELSE W0
  IN [l |-> [l EXCEPT !.wbuf = W1.buf, !.hasher = HashWrite(l.hasher, chunk),
                      !.buffer = SlideWindow(l.buffer, writeLen, Len(l.buffer)) \o r.data,
                      !.srcPos = l.srcPos + Len(r.data),
                      !.eof = r.eof, !.firstRead = FALSE],
      dst |-> W1.out]

\* one pass of verifyStream's `for !eof`, r being what src.Read returns
verifyLoopRead(l, hashLen, r) ==
  [l EXCEPT !.hasher = HashWrite(l.hasher, Slice(l.buffer, 0, hashLen)),
            !.buffer = SlideWindow(l.buffer, hashLen, Len(l.buffer)) \o r.data,
            !.pos = l.pos + Len(r.data),
            !.eof = r.eof, !.first = FALSE]

\* state the calls on an io.Reader do not touch
rdFrame == <<cfgVars, fsVars, wVars, rVars, hVars, fnVars, parVars, cli>>

\* processStream: n, err := src.Read(buffer)
Rd_StreamFirstRead ==
  /\ rd.op = "processStream" /\ rd.l.pc = "read1"
  /\ \E r \in ReadOutcomes(rd.src, rd.l.srcPos, bufferSize) :
       LET S == streamFirstRead(style, rd.l, rd.dst, r)
       IN rd' = [rd EXCEPT !.l = S.l, !.dst = S.dst]
  /\ UNCHANGED rdFrame

\* processStream: one pass of the loop
Rd_StreamLoop ==
  /\ rd.op = "processStream" /\ rd.l.pc = "loop" /\ ~rd.l.eof
  /\ LET writeLen == WriteLen(rd.l.firstRead, Len(rd.l.buffer), windowSize(style))
     IN IF writeLen < 0
        THEN \* buffer[:n-windowSize] with n < windowSize: slice bounds out of range
             rd' = [rd EXCEPT !.l.pc = "panic"]
        ELSE \E r \in ReadOutcomes(rd.src, rd.l.srcPos,
                                   bufferSize - (Len(rd.l.buffer) - writeLen)) :
               LET S == streamLoopRead(style, rd.l, rd.dst, writeLen, r)
               IN rd' = [rd EXCEPT !.l = S.l, !.dst = S.dst]
  /\ UNCHANGED rdFrame

\* processStream: finalizeWindow(writer, hasher, buffer[:n]) at EOF
Rd_StreamFinalize ==
  /\ rd.op = "processStream" /\ rd.l.pc = "loop" /\ rd.l.eof
  /\ LET S == streamFinalize(rd.l, rd.dst,
                             finalizeWindow(createCommentPattern(style), style,
                                            rd.l.hasher, rd.l.buffer))
     IN rd' = [rd EXCEPT !.l = S.l, !.dst = S.dst]
  /\ UNCHANGED rdFrame

\* verifyStream: n, err := src.Read(buffer)
Rd_VerifyFirstRead ==
  /\ rd.op = "verifyStream" /\ rd.l.pc = "read1"
  /\ \E r \in ReadOutcomes(rd.src, rd.l.pos, bufferSize) :
       rd' = [rd EXCEPT !.l = verifyFirstRead(rd.l, r)]
  /\ UNCHANGED rdFrame

\* verifyStream: one pass of the loop
Rd_VerifyLoop ==
  /\ rd.op = "verifyStream" /\ rd.l.pc = "loop" /\ ~rd.l.eof
  /\ LET hashLen == HashLen(rd.l.first, Len(rd.l.buffer), windowSize(style))
     IN IF hashLen < 0
        THEN rd' = [rd EXCEPT !.l.pc = "panic"]
        ELSE \E r \in ReadOutcomes(rd.src, rd.l.pos,
                                   bufferSize - (Len(rd.l.buffer) - hashLen)) :
               rd' = [rd EXCEPT !.l = verifyLoopRead(rd.l, hashLen, r)]
  /\ UNCHANGED rdFrame

\* verifyStream: verifyWindow(hasher, buffer[:n]) at EOF
Rd_VerifyWindow ==
  /\ rd.op = "verifyStream" /\ rd.l.pc = "loop" /\ rd.l.eof
  /\ rd' = [rd EXCEPT !.l.pc = "close",
                      !.l.res = verifyWindow(createCommentPattern(style),
                                             rd.l.hasher, rd.l.buffer)]
  /\ UNCHANGED rdFrame

\* sources: a short line, a line longer than the window with LF, two lines
\* ended by CRLF of which the last is longer than the window, a file with an
\* up-to-date marker, and a marker-shaped line followed by a long line
RdFiles(st) ==
  {<<97, LF>>,
   Filler(MaxLine) \o <<LF>>,
   <<97, CR, LF>> \o Filler(MaxLine) \o <<CR, LF>>,
   Filler(MaxLine) \o <<LF>>
     \o createComment(st, ChecksumIEEE(Filler(MaxLine)), <<LF>>),
   createComment(st, <<4660, 22136>>, <<LF>>) \o Filler(MaxLine) \o <<LF>>}

InitRd ==
  /\ InitLocals
  /\ fnArg = NoCall /\ fnRes = NoResult
  /\ NoInvocations
  /\ cli = <<>>
  /\ style \in Styles
  /\ \E s \in {5, 48} : bufferSize = windowSize(style) + s
  /\ mode = FileMode /\ diskCap = -1 /\ file = <<>>
  /\ \E src \in RdFiles(style) :
       \/ rd = [op |-> "processStream", src |-> src, l |-> NewStream, dst |-> <<>>]
       \/ rd = [op |-> "verifyStream", src |-> src, l |-> NewVerify, dst |-> <<>>]

NextRd ==
  \/ Rd_StreamFirstRead \/ Rd_StreamLoop \/ Rd_StreamFinalize
  \/ Rd_VerifyFirstRead \/ Rd_VerifyLoop \/ Rd_VerifyWindow

SpecRd == InitRd /\ [][NextRd]_vars

\* the call on the io.Reader has returned what the same call returns on an
\* *os.File with the same bytes
SameAsFromFile ==
  /\ (rd.op = "processStream" /\ rd.l.pc = "close") =>
       LET S == RunStream(style, bufferSize, [l |-> NewStream, dst |-> <<>>], rd.src)
       IN rd.l.isNoOp = S.l.isNoOp /\ rd.dst = S.dst
  /\ (rd.op = "verifyStream" /\ rd.l.pc = "close") =>
       rd.l.res = RunVerify(style, bufferSize, NewVerify, rd.src).res

\* no pass of a loop slices buffer[:n-windowSize] with n < windowSize
NoSliceOutOfRange == rd.l.pc # "panic"

\* C30 (read-chunking independence): however the source splits its bytes
\* across reads, processStream and verifyStream return what they return on
\* a source that fills every read, and no short read makes them slice out
\* of range.
C30_ChunkingIndependent == SameAsFromFile /\ NoSliceOutOfRange
====
